---- MODULE Spec2Model ----
(***************************************************************************)
(* Verification model of two cores of minimega:                            *)
(*   Core A - the KVM VM lifecycle engine (src/src/minimega/kvm.go)        *)
(*   Core B - the igor reservation scheduler (src/src/igor/main.go)        *)
(***************************************************************************)
EXTENDS Integers, Sequences, FiniteSets, TLC

(***************************************************************************)
(* Bounds of the model                                                     *)
(***************************************************************************)
\* number of QEMU processes one instance may spawn over its life
MaxLaunch == 2
\* number of operator threads calling into one VM instance
NumThreads == 2
\* largest number of entries of the hotplug table
MaxHotplug == 2
\* the highest id a hotplugged drive is given
MaxId == 1
\* the dials connectQMP makes before it gives up
QMP_CONNECT_RETRY == 2
\* the greatest number of bytes in a reply of query-migrate
MaxRam == 2
\* the names Screenshot draws for its temporary file
MaxSuffix == 2
\* the longest slice of a config that is copied
MaxLen == 1
\* the connections the shim accepts
MaxSessions == 2
\* the most NICs and the most virtio ports of a configuration
MaxNets == 63
MaxPorts == 31

Threads == 1..NumThreads

\* number of nodes of the cluster igor manages
NumNodes == 2
\* number of reservation ids, and so of reservations at one time
MaxRes == 2
\* the clock stops before this many slices
MaxTime == 3
\* longest duration asked of sub and extend, in minutes
MaxDuration == 2
\* the schedule is not extended past this many slices
MaxSlices == 4
\* the horizon sub keeps in the schedule past a request, in minutes: the
\* program's MIN_SCHED_LEN (720) brought to the scale of the model
MinSched == 1

\* the length of a time slice in minutes, and in seconds
MINUTES_PER_SLICE == 1

SliceLen == MINUTES_PER_SLICE * 60

\* the igor invocations that run side by side, and how often each runs
NumProcs == 3
MaxRuns == 2
Procs == 1..NumProcs

Nodes == 1..NumNodes
ResNames == {"a", "b"}

(***************************************************************************)
(* VM states: one bit each, so that State & VM_RUNNING is meaningful       *)
(***************************************************************************)
VM_BUILDING == 1
VM_RUNNING == 2
VM_PAUSED == 4
VM_QUIT == 8
VM_ERROR == 16

DEV_PER_BUS == 32
DEV_PER_VIRTIO == 30

VMStates == {VM_BUILDING, VM_RUNNING, VM_PAUSED, VM_QUIT, VM_ERROR}

RECURSIVE BitAnd(_, _)
BitAnd(a, b) ==
  IF a = 0 \/ b = 0 THEN 0
  ELSE (IF a % 2 = 1 /\ b % 2 = 1 THEN 1 ELSE 0) + 2 * BitAnd(a \div 2, b \div 2)

(***************************************************************************)
(* Inputs                                                                  *)
(***************************************************************************)
\* the configurations an instance is built from: a VM with two NICs whose
\* QEMU binary is looked up, and one named vince with no NIC and a QemuPath
Configs ==
  { [Name |-> "vm0", QemuPath |-> "", Networks |-> <<"", "">>],
    [Name |-> "vince", QemuPath |-> "/usr/bin/qemu", Networks |-> <<>>] }
Disks == {"/a.img"}
Versions == {"", "2.0", "3.0"}
Isos == {"/a.iso"}

\* the errors launch returns
LaunchErrors == {"getBridge", "CreateTap", "writeTaps", "process", "cmd.Start",
                 "connectQMP", "connectVNC"}

VARIABLES
  Name,        \* vm.Name
  QemuPath,    \* vm.KVMConfig.QemuPath
  Networks,    \* vm.Networks: sequence of the NICs' Tap ("" = not created yet)
  State,       \* vm.State
  lock,        \* vm.lock: <<"free">>, <<"thread", t>> or <<"wait", g>>
  pc,          \* position of every operator thread: <<operation, step>>
  kill,        \* vm.kill: the id of the current kill channel
  killClosed,  \* the kill channels that were closed
  cmds,        \* one record per QEMU process spawned by launch
  wpc,         \* position of the wait goroutine of every process
  kpc,         \* position of the kill goroutine of every process
  kch,         \* the kill channel the kill goroutine selects on
  q,           \* vm.q: the process the QMP connection talks to, 0 = none
  vncShim,     \* vm.vncShim: the listener of the shim, 0 = nil
  shimOpen,    \* the listeners that are open
  killAck,     \* number of ids sent on killAck by every kill goroutine
  hotplug,     \* vm.hotplug
  CdromPath,   \* vm.CdromPath
  qmpLog,      \* the QMP commands sent by the operation in progress (or last)
  ret,         \* what the step just taken returned: [op, err]
  issued,      \* history: the highest id a Hotplug gave so far, -1 if none
  count        \* connectQMP: the dials that failed so far, 0 outside it

VARIABLES
  vmConfig,    \* what qemuArgs reads: [Networks, VirtioPorts], both counts,
               \* and QemuAppend, a sequence of tokens
  qargs        \* qemuArgs: its bus, addr, virtio_slot, i and args, and its pc

argVars == <<vmConfig, qargs>>

VARIABLES
  listener,    \* connectVNC: the listener l of the shim, "none", "open", "closed"
  acceptor,    \* the goroutine around l.Accept: "none", "accept", "done"
  sessions     \* the goroutines of the accepted connections

vncVars == <<listener, acceptor, sessions>>

VARIABLES
  reply,       \* QueryMigrate: what vm.q.QueryMigrate returned
  migrate      \* QueryMigrate: what it returns, once it has

migrateVars == <<reply, migrate>>

VARIABLES
  shot,        \* Screenshot: the call, its position and what it returns
  tmpFiles     \* the minimega_screenshot_ files under os.TempDir()

shotVars == <<shot, tmpFiles>>

VARIABLES
  heap,        \* KVMConfig.Copy: the arrays behind the slices
  oldCfg,      \* old, the config that is copied: the array of each slice
  resCfg,      \* res, the copy
  copied,      \* Copy has returned
  stored       \* history: the config the last store went through

copyVars == <<heap, oldCfg, resCfg, copied, stored>>

VARIABLES
  mmMu,        \* miniweb: the mutex around run, 0 or the caller that holds it
  mm,          \* the connection to minimega, 0 for nil
  conns,       \* every connection dialed: the commands run on it, its error
  calls        \* the calls of run: position, locals and what was returned

webVars == <<mmMu, mm, conns, calls>>

VARIABLES
  drives,      \* QEMU: the ids n of the drives named hotplug<n> that it holds
  devices,     \* QEMU: the ids n of its USB devices named hotplug<n>
  plug         \* the hotplug call that returned last, and what it met

plugVars == <<drives, devices, plug>>

callVars == <<migrateVars, shotVars, copyVars, webVars, plugVars>>

kvmVars == <<Name, QemuPath, Networks, State, lock, pc, kill, killClosed, cmds,
             wpc, kpc, kch, q, vncShim, shimOpen, killAck, hotplug, CdromPath,
             qmpLog, ret, issued, count, argVars, vncVars, callVars>>

VARIABLES
  Reservations, \* map of reservation id to reservation
  Schedule,     \* sequence of time slices [Start, End, Nodes]
  now,          \* the clock, UNIX seconds
  pxe,          \* names that have a file under pxelinux.cfg/igor
  power,        \* what Power did last to the hosts of a reservation name
  AutoReboot,   \* igorConfig.AutoReboot
  ipc,          \* position of the igor invocation: "idle" or "cmd"
  iret          \* what the last step of igor gave

igorData == <<Reservations, Schedule, now, pxe, power, AutoReboot, ipc, iret>>

VARIABLES
  resdb,        \* the invocations that hold LOCK_EX on reservations.json
  scheddb,      \* the invocations that hold LOCK_EX on schedule.gob
  mpc,          \* position of each invocation in main
  runs          \* how often each invocation was started

flockVars == <<resdb, scheddb, mpc, runs>>

VARIABLES
  args0,        \* main: args[0] of the invocation, "" when there is none
  files,        \* what reservations.json and schedule.gob hold
  mainpc,       \* position in main
  held,         \* the files this invocation holds LOCK_EX on
  loaded,       \* what getReservations and getSchedule left in memory
  exitStatus,   \* the variable exitStatus
  exitCode,     \* the status the process exited with, -1 while it runs
  steps         \* history: what main has done, in order

mainVars == <<args0, files, mainpc, held, loaded, exitStatus, exitCode, steps>>

igorVars == <<igorData, flockVars, mainVars>>

vars == <<kvmVars, igorVars>>

Idle == <<"idle", "">>
Locked == <<"locked", "">>
Free == <<"free">>
NoRet == [op |-> "", err |-> ""]
NoChan == -1

\* the process launch is working on: the one spawned last
cur == Len(cmds)

\* the NICs whose tap was not created yet
Untapped == {i \in DOMAIN Networks : Networks[i] = ""}

\* the NICs as launch leaves them when tap creation failed at NIC i
\* (i = Len(Networks) + 1: no failure)
TapsUpTo(i) == [j \in DOMAIN Networks |->
                  IF j < i /\ Networks[j] = "" THEN "tap" ELSE Networks[j]]

\* a QMP command can succeed only on a connection to a live QEMU
QmpOutcomes == IF q # 0 /\ cmds[q].alive THEN {TRUE, FALSE} ELSE {FALSE}

\* kill channels some kill goroutine is selecting on
Referenced == {kch[g] : g \in {h \in DOMAIN kpc : kpc[h] = "select"}}

\* make(chan bool): a channel nobody refers to yet. The id of the channel
\* vm.kill held is used again when no goroutine selects on that channel
NewChan ==
  IF kill \notin Referenced THEN kill
  ELSE CHOOSE c \in 0..MaxLaunch :
         /\ c \notin Referenced
         /\ \A d \in 0..MaxLaunch : d \notin Referenced => c <= d

(***************************************************************************)
(* BaseVM.setState, BaseVM.setError                                        *)
(***************************************************************************)
setState(s) == State' = s

setError == State' = VM_ERROR

\* cmd.Process.Kill() on process g: SIGKILL, nothing on a process that exited
ProcessKill(g) == [cmds EXCEPT ![g].killed = cmds[g].alive]

(***************************************************************************)
(* Taking and releasing vm.lock                                            *)
(***************************************************************************)
\* vm.lock.Lock() at the head of Start, Stop, Hotplug, HotplugRemove,
\* HotplugRemoveAll, ChangeCD and EjectCD
Lock(t) ==
  /\ pc[t] = Idle
  /\ lock = Free
  /\ lock' = <<"thread", t>>
  /\ pc' = [pc EXCEPT ![t] = Locked]
  /\ ret' = NoRet
  /\ qmpLog' = <<>>
  /\ UNCHANGED <<Name, QemuPath, Networks, State, kill, killClosed, cmds, wpc,
                 kpc, kch, q, vncShim, shimOpen, killAck, hotplug, CdromPath>>
  /\ UNCHANGED <<igorVars, issued, argVars, count, vncVars, callVars>>

\* deferred vm.lock.Unlock() and return of err
Return(t, op, e) ==
  /\ pc' = [pc EXCEPT ![t] = Idle]
  /\ lock' = Free
  /\ ret' = [op |-> op, err |-> e]

Goto(t, op, step) ==
  /\ pc' = [pc EXCEPT ![t] = <<op, step>>]
  /\ ret' = NoRet
  /\ UNCHANGED lock

\* ret and qmpLog show what the operation that returned last gave; they are
\* forgotten at the next step of anybody
Forget ==
  /\ ret' = NoRet
  /\ qmpLog' = IF lock[1] = "thread" THEN qmpLog ELSE <<>>

(***************************************************************************)
(* KvmVM.launch, in three steps: up to cmd.Start and the wait goroutine,   *)
(* connectQMP, connectVNC up to the kill goroutine. op is the caller,      *)
(* "Launch" or "Start", which holds vm.lock.                               *)
(***************************************************************************)
launchSpawn(t, op) ==
  /\ pc[t] = <<op, "launch">>
  /\ UNCHANGED <<Name, QemuPath, kill, killClosed, q, vncShim, shimOpen,
                 hotplug, CdromPath, qmpLog>>
  /\ \/ \* getBridge or CreateTap fails at NIC i
        \E i \in Untapped, e \in {"getBridge", "CreateTap"} :
          /\ Networks' = TapsUpTo(i)
          /\ setError
          /\ Return(t, op, e)
          /\ UNCHANGED <<cmds, wpc, kpc, kch, killAck>>
     \/ \* writeTaps fails
        /\ Len(Networks) > 0
        /\ Networks' = TapsUpTo(Len(Networks) + 1)
        /\ setError
        /\ Return(t, op, "writeTaps")
        /\ UNCHANGED <<cmds, wpc, kpc, kch, killAck>>
     \/ \* process("kvm") fails: returned as it is
        /\ QemuPath = ""
        /\ Networks' = TapsUpTo(Len(Networks) + 1)
        /\ Return(t, op, "process")
        /\ UNCHANGED <<State, cmds, wpc, kpc, kch, killAck>>
     \/ \* cmd.Start fails
        /\ Networks' = TapsUpTo(Len(Networks) + 1)
        /\ setError
        /\ Return(t, op, "cmd.Start")
        /\ UNCHANGED <<cmds, wpc, kpc, kch, killAck>>
     \/ \* QEMU is running; the wait goroutine blocks in cmd.Wait
        /\ Len(cmds) < MaxLaunch
        /\ Networks' = TapsUpTo(Len(Networks) + 1)
        /\ cmds' = Append(cmds, [alive |-> TRUE, killed |-> FALSE, reason |-> "none"])
        /\ wpc' = Append(wpc, "wait")
        /\ kpc' = Append(kpc, "none")
        /\ kch' = Append(kch, NoChan)
        /\ killAck' = Append(killAck, 0)
        /\ Goto(t, op, "qmp")
        /\ UNCHANGED State
  /\ UNCHANGED <<igorVars, issued, argVars, count, vncVars, callVars>>

\* launchQMP done wrong: connectQMP dials until it is connected
launchQMPForever(t, op) ==
  /\ pc[t] = <<op, "qmp">>
  /\ UNCHANGED <<Name, QemuPath, Networks, kill, killClosed, wpc, kpc, kch,
                 vncShim, shimOpen, killAck, hotplug, CdromPath, qmpLog>>
  /\ \/ /\ cmds[cur].alive
        /\ q' = cur
        /\ count' = 0
        /\ Goto(t, op, "vnc")
        /\ UNCHANGED <<State, cmds>>
     \/ /\ count' = IF count < QMP_CONNECT_RETRY THEN count + 1 ELSE count
        /\ q' = 0
        /\ Goto(t, op, "qmp")
        /\ UNCHANGED <<State, cmds>>
  /\ UNCHANGED <<igorVars, issued, argVars, vncVars, callVars>>

\* connectQMP, one turn of its loop at a time, and what launch does with
\* its error
launchQMP(t, op) ==
  /\ pc[t] = <<op, "qmp">>
  /\ UNCHANGED <<Name, QemuPath, Networks, kill, killClosed, wpc, kpc, kch,
                 vncShim, shimOpen, killAck, hotplug, CdromPath, qmpLog>>
  /\ \/ \* a dial succeeded: connectQMP returns
        /\ count < QMP_CONNECT_RETRY
        /\ cmds[cur].alive
        /\ q' = cur
        /\ count' = 0
        /\ Goto(t, op, "vnc")
        /\ UNCHANGED <<State, cmds>>
     \/ \* a dial failed: sleep and count++
        /\ count < QMP_CONNECT_RETRY
        /\ q' = 0
        /\ count' = count + 1
        /\ Goto(t, op, "qmp")
        /\ UNCHANGED <<State, cmds>>
     \/ \* never connected
        /\ count >= QMP_CONNECT_RETRY
        /\ q' = 0
        /\ count' = 0
        /\ cmds' = ProcessKill(cur)
        /\ setError
        /\ Return(t, op, "connectQMP")
  /\ UNCHANGED <<igorVars, issued, argVars, vncVars, callVars>>

launchVNC(t, op) ==
  /\ pc[t] = <<op, "vnc">>
  /\ UNCHANGED <<Name, QemuPath, Networks, kill, killClosed, wpc, kch, q,
                 killAck, hotplug, CdromPath, qmpLog>>
  /\ \/ \* net.Listen fails
        /\ cmds' = ProcessKill(cur)
        /\ setError
        /\ Return(t, op, "connectVNC")
        /\ UNCHANGED <<vncShim, shimOpen, kpc>>
     \/ \* the shim listens; the kill goroutine is started
        /\ vncShim' = cur
        /\ shimOpen' = shimOpen \cup {cur}
        /\ kpc' = [kpc EXCEPT ![cur] = "spawned"]
        /\ IF op = "Launch" THEN Return(t, op, "nil") ELSE Goto(t, op, "cont")
        /\ UNCHANGED <<State, cmds>>
  /\ UNCHANGED <<igorVars, issued, argVars, count, vncVars, callVars>>

(***************************************************************************)
(* The QEMU process and the wait goroutine of launch                       *)
(***************************************************************************)
\* process g exits and cmd.Wait returns its reason
ProcExit(g) ==
  /\ cmds[g].alive
  /\ \E r \in IF cmds[g].killed THEN {"signal: killed"} ELSE {"nil", "exit status 1"} :
       cmds' = [cmds EXCEPT ![g] = [alive |-> FALSE, killed |-> FALSE, reason |-> r]]
  /\ wpc' = [wpc EXCEPT ![g] = "lock"]
  /\ UNCHANGED <<Name, QemuPath, Networks, State, lock, pc, kill, killClosed,
                 kpc, kch, q, vncShim, shimOpen, killAck, hotplug, CdromPath>>
  /\ Forget
  /\ UNCHANGED <<igorVars, issued, argVars, count, vncVars, callVars>>

\* vm.lock.Lock() of the wait goroutine
WaitLock(g) ==
  /\ wpc[g] = "lock"
  /\ lock = Free
  /\ lock' = <<"wait", g>>
  /\ wpc' = [wpc EXCEPT ![g] = "locked"]
  /\ UNCHANGED <<Name, QemuPath, Networks, State, pc, kill, killClosed, cmds,
                 kpc, kch, q, vncShim, shimOpen, killAck, hotplug, CdromPath>>
  /\ Forget
  /\ UNCHANGED <<igorVars, issued, argVars, count, vncVars, callVars>>

\* WaitBody without the test that keeps a VM in ERROR
WaitBodyAlwaysQuit(g) ==
  /\ wpc[g] = "locked"
  /\ IF cmds[g].reason \notin {"nil", "signal: killed"}
       THEN setError
       ELSE setState(VM_QUIT)
  /\ shimOpen' = IF vncShim # 0 THEN shimOpen \ {vncShim} ELSE shimOpen
  /\ lock' = Free
  /\ wpc' = [wpc EXCEPT ![g] = "done"]
  /\ cmds' = [cmds EXCEPT ![g].reason = "none"]
  /\ ret' = [op |-> "wait", err |-> cmds[g].reason]
  /\ qmpLog' = <<>>
  /\ UNCHANGED <<Name, QemuPath, Networks, pc, kill, killClosed, kpc, kch,
                 q, vncShim, killAck, hotplug, CdromPath>>
  /\ UNCHANGED <<igorVars, issued, argVars, count, vncVars, callVars>>

\* WaitBody that takes the exit of a killed process for an error
WaitBodyKilledIsError(g) ==
  /\ wpc[g] = "locked"
  /\ IF cmds[g].reason # "nil"
       THEN setError
       ELSE IF State # VM_ERROR THEN setState(VM_QUIT) ELSE UNCHANGED State
  /\ shimOpen' = IF vncShim # 0 THEN shimOpen \ {vncShim} ELSE shimOpen
  /\ lock' = Free
  /\ wpc' = [wpc EXCEPT ![g] = "done"]
  /\ cmds' = [cmds EXCEPT ![g].reason = "none"]
  /\ ret' = [op |-> "wait", err |-> cmds[g].reason]
  /\ qmpLog' = <<>>
  /\ UNCHANGED <<Name, QemuPath, Networks, pc, kill, killClosed, kpc, kch,
                 q, vncShim, killAck, hotplug, CdromPath>>
  /\ UNCHANGED <<igorVars, issued, argVars, count, vncVars, callVars>>

\* the state transition, closing the shim, the deferred Unlock and close(waitChan)
WaitBody(g) ==
  /\ wpc[g] = "locked"
  /\ IF cmds[g].reason \notin {"nil", "signal: killed"}
       THEN setError
       ELSE IF State # VM_ERROR THEN setState(VM_QUIT) ELSE UNCHANGED State
  /\ shimOpen' = IF vncShim # 0 THEN shimOpen \ {vncShim} ELSE shimOpen
  /\ lock' = Free
  /\ wpc' = [wpc EXCEPT ![g] = "done"]
  /\ cmds' = [cmds EXCEPT ![g].reason = "none"]
  /\ ret' = [op |-> "wait", err |-> cmds[g].reason]
  /\ qmpLog' = <<>>
  /\ UNCHANGED <<Name, QemuPath, Networks, pc, kill, killClosed, kpc, kch,
                 q, vncShim, killAck, hotplug, CdromPath>>
  /\ UNCHANGED <<igorVars, issued, argVars, count, vncVars, callVars>>

(***************************************************************************)
(* The kill goroutine of launch                                            *)
(***************************************************************************)
\* the goroutine reaches the select and evaluates vm.kill there; it holds
\* no lock, so it reads whatever channel the field holds at that moment
KillSelect(g) ==
  /\ kpc[g] = "spawned"
  /\ kpc' = [kpc EXCEPT ![g] = "select"]
  /\ kch' = [kch EXCEPT ![g] = kill]
  /\ UNCHANGED <<Name, QemuPath, Networks, State, lock, pc, kill, killClosed,
                 cmds, wpc, q, vncShim, shimOpen, killAck, hotplug, CdromPath>>
  /\ Forget
  /\ UNCHANGED <<igorVars, issued, argVars, count, vncVars, callVars>>

\* KillNatural that goes on to send the id on killAck
KillNaturalAcks(g) ==
  /\ kpc[g] = "select"
  /\ wpc[g] = "done"
  /\ kpc' = [kpc EXCEPT ![g] = "ack"]
  /\ kch' = [kch EXCEPT ![g] = NoChan]
  /\ killClosed' = killClosed \cap ({kch'[h] : h \in DOMAIN kch} \cup {kill})
  /\ UNCHANGED <<Name, QemuPath, Networks, State, lock, pc, kill, cmds, wpc, q,
                 vncShim, shimOpen, killAck, hotplug, CdromPath>>
  /\ Forget
  /\ UNCHANGED <<igorVars, issued, argVars, count, vncVars, callVars>>

\* case <-waitChan: the process exited by itself
KillNatural(g) ==
  /\ kpc[g] = "select"
  /\ wpc[g] = "done"
  /\ kpc' = [kpc EXCEPT ![g] = "exited"]
  /\ kch' = [kch EXCEPT ![g] = NoChan]
  /\ killClosed' = killClosed \cap ({kch'[h] : h \in DOMAIN kch} \cup {kill})
  /\ UNCHANGED <<Name, QemuPath, Networks, State, lock, pc, kill, cmds, wpc, q,
                 vncShim, shimOpen, killAck, hotplug, CdromPath>>
  /\ Forget
  /\ UNCHANGED <<igorVars, issued, argVars, count, vncVars, callVars>>

\* case <-vm.kill: cmd.Process.Kill()
KillOperator(g) ==
  /\ kpc[g] = "select"
  /\ kch[g] \in killClosed
  /\ cmds' = ProcessKill(g)
  /\ kpc' = [kpc EXCEPT ![g] = "waitexit"]
  /\ kch' = [kch EXCEPT ![g] = NoChan]
  /\ killClosed' = killClosed \cap ({kch'[h] : h \in DOMAIN kch} \cup {kill})
  /\ UNCHANGED <<Name, QemuPath, Networks, State, lock, pc, kill, wpc, q,
                 vncShim, shimOpen, killAck, hotplug, CdromPath>>
  /\ Forget
  /\ UNCHANGED <<igorVars, issued, argVars, count, vncVars, callVars>>

\* <-waitChan after the kill
KillWaited(g) ==
  /\ kpc[g] = "waitexit"
  /\ wpc[g] = "done"
  /\ kpc' = [kpc EXCEPT ![g] = "ack"]
  /\ UNCHANGED <<Name, QemuPath, Networks, State, lock, pc, kill, killClosed,
                 cmds, wpc, kch, q, vncShim, shimOpen, killAck, hotplug,
                 CdromPath>>
  /\ Forget
  /\ UNCHANGED <<igorVars, issued, argVars, count, vncVars, callVars>>

\* killAck <- vm.ID, taken by the receiver of the global channel
KillAckSend(g) ==
  /\ kpc[g] = "ack"
  /\ killAck' = [killAck EXCEPT ![g] = @ + 1]
  /\ kpc' = [kpc EXCEPT ![g] = "acked"]
  /\ UNCHANGED <<Name, QemuPath, Networks, State, lock, pc, kill, killClosed,
                 cmds, wpc, kch, q, vncShim, shimOpen, hotplug, CdromPath>>
  /\ Forget
  /\ UNCHANGED <<igorVars, issued, argVars, count, vncVars, callVars>>

(***************************************************************************)
(* The operator's kill: the kill channel of the instance is closed         *)
(***************************************************************************)
Kill ==
  /\ kill \notin killClosed
  /\ killClosed' = killClosed \cup {kill}
  /\ UNCHANGED <<Name, QemuPath, Networks, State, lock, pc, kill, cmds, wpc,
                 kpc, kch, q, vncShim, shimOpen, killAck, hotplug, CdromPath>>
  /\ Forget
  /\ UNCHANGED <<igorVars, issued, argVars, count, vncVars, callVars>>

(***************************************************************************)
(* KvmVM.Launch: called with vm.lock held, which it releases on return     *)
(***************************************************************************)
Launch(t) ==
  \/ launchSpawn(t, "Launch")
  \/ launchQMP(t, "Launch")
  \/ launchVNC(t, "Launch")

(***************************************************************************)
(* KvmVM.Start                                                             *)
(***************************************************************************)
\* StartCheck that relaunches without a new kill channel
StartCheckKeepsChan(t) ==
  /\ pc[t] = Locked
  /\ UNCHANGED <<Name, QemuPath, Networks, State, cmds, wpc, kpc, kch, q,
                 vncShim, shimOpen, killAck, hotplug, CdromPath, qmpLog,
                 kill, killClosed>>
  /\ IF BitAnd(State, VM_RUNNING) # 0
       THEN Return(t, "Start", "nil")
       ELSE IF State = VM_QUIT \/ State = VM_ERROR
         THEN Len(cmds) < MaxLaunch /\ Goto(t, "Start", "launch")
         ELSE Goto(t, "Start", "cont")
  /\ UNCHANGED <<igorVars, issued, argVars, count, vncVars, callVars>>

StartCheck(t) ==
  /\ pc[t] = Locked
  /\ UNCHANGED <<Name, QemuPath, Networks, State, cmds, wpc, kpc, kch, q,
                 vncShim, shimOpen, killAck, hotplug, CdromPath, qmpLog>>
  /\ IF BitAnd(State, VM_RUNNING) # 0
       THEN /\ Return(t, "Start", "nil")
            /\ UNCHANGED <<kill, killClosed>>
       ELSE IF State = VM_QUIT \/ State = VM_ERROR
         THEN /\ Len(cmds) < MaxLaunch
              /\ kill' = NewChan
              /\ killClosed' = killClosed \cap Referenced
              /\ Goto(t, "Start", "launch")
         ELSE /\ Goto(t, "Start", "cont")
              /\ UNCHANGED <<kill, killClosed>>
  /\ UNCHANGED <<igorVars, issued, argVars, count, vncVars, callVars>>

\* vm.q.Start(): QMP cont
StartCont(t) ==
  /\ pc[t] = <<"Start", "cont">>
  /\ qmpLog' = Append(qmpLog, <<"cont">>)
  /\ \E ok \in QmpOutcomes :
       IF ok THEN setState(VM_RUNNING) /\ Return(t, "Start", "nil")
             ELSE setError /\ Return(t, "Start", "q.Start")
  /\ UNCHANGED <<Name, QemuPath, Networks, kill, killClosed, cmds, wpc, kpc,
                 kch, q, vncShim, shimOpen, killAck, hotplug, CdromPath>>
  /\ UNCHANGED <<igorVars, issued, argVars, count, vncVars, callVars>>

Start(t) ==
  \/ StartCheck(t)
  \/ launchSpawn(t, "Start")
  \/ launchQMP(t, "Start")
  \/ launchVNC(t, "Start")
  \/ StartCont(t)

(***************************************************************************)
(* KvmVM.Stop                                                              *)
(***************************************************************************)
\* Stop that pauses the VM whatever QMP answers
StopIgnoresError(t) ==
  /\ pc[t] = Locked
  /\ UNCHANGED <<Name, QemuPath, Networks, kill, killClosed, cmds, wpc, kpc,
                 kch, q, vncShim, shimOpen, killAck, hotplug, CdromPath>>
  /\ IF Name = "vince"
       THEN /\ Return(t, "Stop", "vince is unstoppable")
            /\ UNCHANGED <<State, qmpLog>>
       ELSE IF State # VM_RUNNING
         THEN /\ Return(t, "Stop", "vmNotRunning")
              /\ UNCHANGED <<State, qmpLog>>
         ELSE /\ qmpLog' = Append(qmpLog, <<"stop">>)
              /\ setState(VM_PAUSED)
              /\ \E ok \in QmpOutcomes :
                   IF ok THEN Return(t, "Stop", "nil")
                         ELSE Return(t, "Stop", "q.Stop")
  /\ UNCHANGED <<igorVars, issued, argVars, count, vncVars, callVars>>

Stop(t) ==
  /\ pc[t] = Locked
  /\ UNCHANGED <<Name, QemuPath, Networks, kill, killClosed, cmds, wpc, kpc,
                 kch, q, vncShim, shimOpen, killAck, hotplug, CdromPath>>
  /\ IF Name = "vince"
       THEN /\ Return(t, "Stop", "vince is unstoppable")
            /\ UNCHANGED <<State, qmpLog>>
       ELSE IF State # VM_RUNNING
         THEN /\ Return(t, "Stop", "vmNotRunning")
              /\ UNCHANGED <<State, qmpLog>>
         ELSE /\ qmpLog' = Append(qmpLog, <<"stop">>)
              /\ \E ok \in QmpOutcomes :
                   IF ok THEN setState(VM_PAUSED) /\ Return(t, "Stop", "nil")
                         ELSE setError /\ Return(t, "Stop", "q.Stop")
  /\ UNCHANGED <<igorVars, issued, argVars, count, vncVars, callVars>>

(***************************************************************************)
(* KvmVM.Hotplug                                                           *)
(***************************************************************************)
Max(S) == CHOOSE x \in S : \A y \in S : y <= x

\* NextHotplugId done wrong: the number of entries of the table
NextHotplugIdCount == Cardinality(DOMAIN hotplug)

\* adding 1 to the highest id of the table, 0 if it is empty
NextHotplugId == IF DOMAIN hotplug = {} THEN 0 ELSE Max(DOMAIN hotplug) + 1

hid(id) == <<"hotplug", id>>

\* EjectCD that does not take vm.lock
EjectCDNoLock(t) ==
  /\ pc[t] = Idle
  /\ IF CdromPath = ""
       THEN /\ Return(t, "EjectCD", "no cdrom inserted")
            /\ UNCHANGED <<CdromPath, qmpLog>>
       ELSE /\ qmpLog' = qmpLog \o << <<"eject", "ide0-cd1">> >>
            /\ \E ok \in QmpOutcomes :
                 IF ok THEN CdromPath' = "" /\ Return(t, "EjectCD", "nil")
                       ELSE UNCHANGED CdromPath /\ Return(t, "EjectCD", "q.BlockdevEject")
  /\ UNCHANGED <<Name, QemuPath, Networks, State, kill, killClosed, cmds, wpc,
                 kpc, kch, q, vncShim, shimOpen, killAck, hotplug>>
  /\ UNCHANGED <<igorVars, issued, argVars, count, vncVars, callVars>>

\* the version is checked before the lock is taken
HotplugInvalid(t, version) ==
  /\ pc[t] = Idle
  /\ version \notin {"", "1.1", "2.0"}
  /\ ret' = [op |-> "Hotplug", err |-> "invalid version"]
  /\ qmpLog' = IF lock[1] = "thread" THEN qmpLog ELSE <<>>
  /\ UNCHANGED <<Name, QemuPath, Networks, State, lock, pc, kill, killClosed,
                 cmds, wpc, kpc, kch, q, vncShim, shimOpen, killAck, hotplug,
                 CdromPath>>
  /\ UNCHANGED <<igorVars, issued, argVars, count, vncVars, callVars>>

\* HotplugLocked done wrong: the entry is written before device_add
HotplugLockedEarly(t, f, ver) ==
  /\ pc[t] = Locked
  /\ ver \in {"", "1.1", "2.0"}
  /\ Cardinality(DOMAIN hotplug) < MaxHotplug
  /\ NextHotplugId <= MaxId
  /\ LET version == IF ver = "" THEN "1.1" ELSE ver
         bus == IF ver = "2.0" THEN "ehci.0" ELSE "usb-bus.0"
         id == NextHotplugId
         add == <<"drive_add", hid(id), f>>
         dev == <<"device_add", hid(id), bus>>
         tab == [k \in DOMAIN hotplug \cup {id} |->
                   IF k = id THEN [Disk |-> f, Version |-> version]
                             ELSE hotplug[k]]
     IN  \/ /\ qmpLog' = qmpLog \o <<add>>
            /\ Return(t, "Hotplug", "q.DriveAdd")
            /\ UNCHANGED <<hotplug, issued>>
         \/ /\ TRUE \in QmpOutcomes
            /\ qmpLog' = qmpLog \o <<add, dev>>
            /\ hotplug' = tab
            /\ issued' = Max({issued, id})
            /\ Return(t, "Hotplug", "q.USBDeviceAdd")
         \/ /\ TRUE \in QmpOutcomes
            /\ qmpLog' = qmpLog \o <<add, dev>>
            /\ hotplug' = tab
            /\ issued' = Max({issued, id})
            /\ Return(t, "Hotplug", "nil")
  /\ UNCHANGED <<Name, QemuPath, Networks, State, kill, killClosed, cmds, wpc,
                 kpc, kch, q, vncShim, shimOpen, killAck, CdromPath>>
  /\ UNCHANGED <<igorVars, argVars, count, vncVars, callVars>>

\* Hotplug under vm.lock: the id, drive_add, device_add, then the entry
HotplugLocked(t, f, ver) ==
  /\ pc[t] = Locked
  /\ ver \in {"", "1.1", "2.0"}
  /\ Cardinality(DOMAIN hotplug) < MaxHotplug
  /\ NextHotplugId <= MaxId
  /\ LET version == IF ver = "" THEN "1.1" ELSE ver
         bus == IF ver = "2.0" THEN "ehci.0" ELSE "usb-bus.0"
         id == NextHotplugId
         add == <<"drive_add", hid(id), f>>
         dev == <<"device_add", hid(id), bus>>
     IN  \/ \* DriveAdd fails
            /\ qmpLog' = qmpLog \o <<add>>
            /\ Return(t, "Hotplug", "q.DriveAdd")
            /\ UNCHANGED <<hotplug, issued>>
         \/ \* USBDeviceAdd fails
            /\ TRUE \in QmpOutcomes
            /\ qmpLog' = qmpLog \o <<add, dev>>
            /\ Return(t, "Hotplug", "q.USBDeviceAdd")
            /\ UNCHANGED <<hotplug, issued>>
         \/ /\ TRUE \in QmpOutcomes
            /\ qmpLog' = qmpLog \o <<add, dev>>
            /\ hotplug' = [k \in DOMAIN hotplug \cup {id} |->
                             IF k = id THEN [Disk |-> f, Version |-> version]
                                       ELSE hotplug[k]]
            /\ issued' = Max({issued, id})
            /\ Return(t, "Hotplug", "nil")
  /\ UNCHANGED <<Name, QemuPath, Networks, State, kill, killClosed, cmds, wpc,
                 kpc, kch, q, vncShim, shimOpen, killAck, CdromPath>>
  /\ UNCHANGED <<igorVars, argVars, count, vncVars, callVars>>

Hotplug(t) ==
  \/ \E version \in Versions : HotplugInvalid(t, version)
  \/ \E f \in Disks, version \in Versions : HotplugLocked(t, f, version)

(***************************************************************************)
(* KvmVM.hotplugRemove, HotplugRemove, HotplugRemoveAll                    *)
(***************************************************************************)
\* hotplugRemoveLog done wrong: the drive is deleted before the device
hotplugRemoveLogDriveFirst(tab, id, out) ==
  IF id \notin DOMAIN tab THEN <<>>
  ELSE IF out = "q.USBDeviceDel" THEN << <<"drive_del", hid(id)>> >>
  ELSE << <<"drive_del", hid(id)>>, <<"device_del", hid(id)>> >>

\* hotplugRemove(id) on table tab ending with out: "nil", "no such hotplug
\* device", "q.USBDeviceDel" or "q.DriveDel": the commands it sends
hotplugRemoveLog(tab, id, out) ==
  IF id \notin DOMAIN tab THEN <<>>
  ELSE IF out = "q.USBDeviceDel" THEN << <<"device_del", hid(id)>> >>
  ELSE << <<"device_del", hid(id)>>, <<"drive_del", hid(id)>> >>

\* hotplugRemoveTable done wrong: the table is emptied
hotplugRemoveTableAll(tab, id, out) ==
  IF out = "nil" THEN << >> ELSE tab

\* and the table it leaves
hotplugRemoveTable(tab, id, out) ==
  IF out = "nil" THEN [k \in DOMAIN tab \ {id} |-> tab[k]] ELSE tab

\* the ways hotplugRemove(id) can end on table tab
hotplugRemoveOuts(tab, id) ==
  IF id \notin DOMAIN tab THEN {"no such hotplug device"}
  ELSE {"q.USBDeviceDel"} \cup
       (IF TRUE \in QmpOutcomes THEN {"q.DriveDel", "nil"} ELSE {})

HotplugRemove(t, id) ==
  /\ pc[t] = Locked
  /\ \E out \in hotplugRemoveOuts(hotplug, id) :
       /\ qmpLog' = qmpLog \o hotplugRemoveLog(hotplug, id, out)
       /\ hotplug' = hotplugRemoveTable(hotplug, id, out)
       /\ Return(t, "HotplugRemove", out)
  /\ UNCHANGED <<Name, QemuPath, Networks, State, kill, killClosed, cmds, wpc,
                 kpc, kch, q, vncShim, shimOpen, killAck, CdromPath>>
  /\ UNCHANGED <<igorVars, issued, argVars, count, vncVars, callVars>>

\* the sequences without repetition of the elements of S
Orders(S) ==
  {o \in [1..Cardinality(S) -> S] : \A i, j \in DOMAIN o : i # j => o[i] # o[j]}

\* the range over the table in the order o, stopped by the first error:
\* the first n ids are removed, then out ends the loop
RECURSIVE removeAllLog(_, _, _, _)
removeAllLog(tab, o, n, out) ==
  IF o = <<>> THEN <<>>
  ELSE IF n = 0 THEN hotplugRemoveLog(tab, Head(o), out)
  ELSE hotplugRemoveLog(tab, Head(o), "nil")
         \o removeAllLog(hotplugRemoveTable(tab, Head(o), "nil"), Tail(o), n - 1, out)

HotplugRemoveAll(t) ==
  /\ pc[t] = Locked
  /\ IF DOMAIN hotplug = {}
       THEN /\ Return(t, "HotplugRemoveAll", "no hotplug devices to remove")
            /\ UNCHANGED <<hotplug, qmpLog>>
       ELSE \E o \in Orders(DOMAIN hotplug) :
              \/ \* every hotplugRemove succeeds
                 /\ TRUE \in QmpOutcomes
                 /\ qmpLog' = qmpLog \o removeAllLog(hotplug, o, Len(o), "nil")
                 /\ hotplug' = << >>
                 /\ Return(t, "HotplugRemoveAll", "nil")
              \/ \* the (n+1)-th fails
                 \E n \in 0..(Len(o) - 1), out \in {"q.USBDeviceDel", "q.DriveDel"} :
                   /\ out \in hotplugRemoveOuts(hotplug, o[n + 1])
                   /\ n > 0 => TRUE \in QmpOutcomes
                   /\ qmpLog' = qmpLog \o removeAllLog(hotplug, o, n, out)
                   /\ hotplug' = [k \in DOMAIN hotplug \ {o[i] : i \in 1..n} |-> hotplug[k]]
                   /\ Return(t, "HotplugRemoveAll", out)
  /\ UNCHANGED <<Name, QemuPath, Networks, State, kill, killClosed, cmds, wpc,
                 kpc, kch, q, vncShim, shimOpen, killAck, CdromPath>>
  /\ UNCHANGED <<igorVars, issued, argVars, count, vncVars, callVars>>

\* ChangeCD done wrong: the error of ejectCD is dropped
ChangeCDDespiteEject(t, f) ==
  /\ pc[t] = Locked
  /\ LET eject == <<"eject", "ide0-cd1">>
         change == <<"change", "ide0-cd1", f>>
         pre == IF CdromPath # "" THEN <<eject>> ELSE <<>>
     IN  \/ /\ qmpLog' = qmpLog \o pre \o <<change>>
            /\ CdromPath' = IF TRUE \in QmpOutcomes THEN "" ELSE CdromPath
            /\ Return(t, "ChangeCD", "q.BlockdevChange")
         \/ /\ TRUE \in QmpOutcomes
            /\ qmpLog' = qmpLog \o pre \o <<change>>
            /\ CdromPath' = f
            /\ Return(t, "ChangeCD", "nil")
  /\ UNCHANGED <<Name, QemuPath, Networks, State, kill, killClosed, cmds, wpc,
                 kpc, kch, q, vncShim, shimOpen, killAck, hotplug>>
  /\ UNCHANGED <<igorVars, issued, argVars, count, vncVars, callVars>>

(***************************************************************************)
(* KvmVM.ChangeCD, EjectCD, ejectCD                                        *)
(***************************************************************************)
ChangeCD(t, f) ==
  /\ pc[t] = Locked
  /\ LET eject == <<"eject", "ide0-cd1">>
         change == <<"change", "ide0-cd1", f>>
         pre == IF CdromPath # "" THEN <<eject>> ELSE <<>>
     IN  \/ \* ejectCD fails
            /\ CdromPath # ""
            /\ qmpLog' = qmpLog \o <<eject>>
            /\ Return(t, "ChangeCD", "q.BlockdevEject")
            /\ UNCHANGED CdromPath
         \/ \* BlockdevChange fails, after the eject if there was one
            /\ CdromPath # "" => TRUE \in QmpOutcomes
            /\ qmpLog' = qmpLog \o pre \o <<change>>
            /\ CdromPath' = ""
            /\ Return(t, "ChangeCD", "q.BlockdevChange")
         \/ /\ TRUE \in QmpOutcomes
            /\ qmpLog' = qmpLog \o pre \o <<change>>
            /\ CdromPath' = f
            /\ Return(t, "ChangeCD", "nil")
  /\ UNCHANGED <<Name, QemuPath, Networks, State, kill, killClosed, cmds, wpc,
                 kpc, kch, q, vncShim, shimOpen, killAck, hotplug>>
  /\ UNCHANGED <<igorVars, issued, argVars, count, vncVars, callVars>>

EjectCD(t) ==
  /\ pc[t] = Locked
  /\ IF CdromPath = ""
       THEN /\ Return(t, "EjectCD", "no cdrom inserted")
            /\ UNCHANGED <<CdromPath, qmpLog>>
       ELSE /\ qmpLog' = qmpLog \o << <<"eject", "ide0-cd1">> >>
            /\ \E ok \in QmpOutcomes :
                 IF ok THEN CdromPath' = "" /\ Return(t, "EjectCD", "nil")
                       ELSE UNCHANGED CdromPath /\ Return(t, "EjectCD", "q.BlockdevEject")
  /\ UNCHANGED <<Name, QemuPath, Networks, State, kill, killClosed, cmds, wpc,
                 kpc, kch, q, vncShim, shimOpen, killAck, hotplug>>
  /\ UNCHANGED <<igorVars, issued, argVars, count, vncVars, callVars>>

(***************************************************************************)
(* igor: the reservation table and the schedule                            *)
(***************************************************************************)
NoIret == [op |-> "", status |-> ""]

\* now brought down to the start of its slice
Aligned(t) == t - (t % SliceLen)

\* a slice in which every node is free
FreeSlice(start) ==
  [Start |-> start, End |-> start + SliceLen, Nodes |-> [n \in Nodes |-> 0]]

\* ceil(a / b)
CeilDiv(a, b) == (a + b - 1) \div b

\* the schedule sched with free slices appended until it covers until
extendSchedule(sched, until) ==
  LET endT == IF sched = <<>> THEN Aligned(now) ELSE sched[Len(sched)].End
      need == IF until > endT THEN CeilDiv(until - endT, SliceLen) ELSE 0
  IN  sched \o [j \in 1..need |-> FreeSlice(endT + (j - 1) * SliceLen)]

\* the schedule without the slices that ended before the slice of now
expireSchedule(sched) ==
  SelectSeq(sched, LAMBDA sl : sl.Start >= Aligned(now))

\* the schedule with every cell that holds an id of ids set to zero
purge(sched, ids) ==
  [j \in DOMAIN sched |->
     [sched[j] EXCEPT !.Nodes = [n \in Nodes |->
        IF sched[j].Nodes[n] \in ids THEN 0 ELSE sched[j].Nodes[n]]]]

\* the reservation table without the ids of ids
drop(res, ids) == [id \in DOMAIN res \ ids |-> res[id]]

\* the names of the reservations ids
namesOf(ids) == {Reservations[id].ResName : id \in ids}

\* the reservation called name, as a set of at most one id
byName(name) == {id \in DOMAIN Reservations : Reservations[id].ResName = name}

\* the schedule with the cells of hosts in the slices first..last set to id
mark(sched, first, last, hosts, id) ==
  [j \in DOMAIN sched |->
     IF j >= first /\ j <= last
       THEN [sched[j] EXCEPT !.Nodes = [n \in Nodes |->
               IF n \in hosts THEN id ELSE sched[j].Nodes[n]]]
       ELSE sched[j]]

\* the n lowest elements of the set S of nodes
RECURSIVE lowest(_, _)
lowest(S, n) ==
  IF n = 0 \/ S = {} THEN {}
  ELSE LET m == CHOOSE x \in S : \A y \in S : x <= y
       IN  {m} \cup lowest(S \ {m}, n - 1)

(***************************************************************************)
(* deleteReservation: zero the cells that hold the id, drop the record,    *)
(* remove the PXE file                                                     *)
(***************************************************************************)
deleteReservation(ids, sched) ==
  /\ Reservations' = drop(Reservations, ids)
  /\ Schedule' = purge(sched, ids)
  /\ pxe' = pxe \ namesOf(ids)
  /\ power' = [n \in ResNames |-> IF n \in namesOf(ids) THEN "" ELSE power[n]]

(***************************************************************************)
(* housekeeping                                                            *)
(***************************************************************************)
\* the reservations that ended
Expired == {id \in DOMAIN Reservations : Reservations[id].EndTime < now}

\* ToInstall done wrong: a reservation is installed before its start
ToInstallEarly ==
  {id \in DOMAIN Reservations \ Expired :
     Reservations[id].ResName \notin pxe}

\* the reservations that started and have no PXE file
ToInstall ==
  {id \in DOMAIN Reservations \ Expired :
     Reservations[id].ResName \notin pxe /\ Reservations[id].StartTime < now}

\* the calls housekeeping makes for one reservation to install, up to and
\* including the call named stage: networkSet, whose error is only logged,
\* then Install and, under AutoReboot, Power off and Power on
callsUpTo(stage) ==
  LET all == IF AutoReboot
             THEN <<"networkSet", "Install", "PowerOff", "PowerOn">>
             ELSE <<"networkSet", "Install">>
      at == {i \in DOMAIN all : all[i] = stage}
  IN  IF at = {} THEN all ELSE SubSeq(all, 1, CHOOSE i \in at : TRUE)

\* the loop over Reservations handled the expired reservations D and
\* installed the reservations I; last is what Power did last for those
housekeepingLoop(D, I, sched) ==
  /\ Reservations' = drop(Reservations, D)
  /\ Schedule' = sched
  /\ pxe' = (pxe \ namesOf(D)) \cup namesOf(I)
  /\ power' = [n \in ResNames |->
                 IF n \in namesOf(D) THEN ""
                 ELSE IF n \in namesOf(I) /\ AutoReboot THEN "on"
                 ELSE power[n]]

\* housekeeping that drops the record of an expired reservation and leaves
\* its cells in the schedule
housekeepingKeepsCells ==
  /\ ipc = "idle"
  /\ UNCHANGED <<now, AutoReboot>>
  /\ \/ \* every reservation is handled, then expireSchedule and putSchedule
        /\ housekeepingLoop(Expired, ToInstall,
                            expireSchedule(Schedule))
        /\ ipc' = "cmd"
        /\ \E NF \in SUBSET ToInstall :
             iret' = [op |-> "housekeeping", status |-> "ok",
                      expired |-> Expired, installed |-> ToInstall,
                      netFailed |-> NF, calls |-> callsUpTo("PowerOn")]
     \/ \* log.Fatal at reservation f, after the reservations P: the range
        \* over the map takes them in any order
        \E f \in ToInstall :
          \E P \in SUBSET ((Expired \cup ToInstall) \ {f}) :
            \E stage \in {"Install"} \cup
                          (IF AutoReboot THEN {"PowerOff", "PowerOn"} ELSE {}) :
              \E file \in IF stage = "Install" THEN BOOLEAN ELSE {TRUE} :
                LET D == P \cap Expired
                    I == P \cap ToInstall
                    fname == Reservations[f].ResName
                IN  /\ Reservations' = drop(Reservations, D)
                    /\ Schedule' = Schedule
                    /\ pxe' = ((pxe \ namesOf(D)) \cup namesOf(I))
                                \cup (IF file THEN {fname} ELSE {})
                    /\ power' = [n \in ResNames |->
                         IF n \in namesOf(D) THEN ""
                         ELSE IF n \in namesOf(I) /\ AutoReboot THEN "on"
                         ELSE IF n = fname /\ stage = "PowerOn" THEN "off"
                         ELSE power[n]]
                    /\ ipc' = "idle"
                    /\ \E NF \in SUBSET (I \cup {f}) :
                         iret' = [op |-> "housekeeping", status |-> stage,
                                  expired |-> D, installed |-> I \cup {f},
                                  netFailed |-> NF, calls |-> callsUpTo(stage)]
  /\ UNCHANGED <<kvmVars, flockVars, mainVars>>

housekeepingClearsCells ==
  /\ ipc = "idle"
  /\ UNCHANGED <<now, AutoReboot>>
  /\ \/ \* every reservation is handled, then expireSchedule and putSchedule
        /\ housekeepingLoop(Expired, ToInstall,
                            expireSchedule(purge(Schedule, DOMAIN Reservations)))
        /\ ipc' = "cmd"
        /\ \E NF \in SUBSET ToInstall :
             iret' = [op |-> "housekeeping", status |-> "ok",
                      expired |-> Expired, installed |-> ToInstall,
                      netFailed |-> NF, calls |-> callsUpTo("PowerOn")]
     \/ \* log.Fatal at reservation f, after the reservations P: the range
        \* over the map takes them in any order
        \E f \in ToInstall :
          \E P \in SUBSET ((Expired \cup ToInstall) \ {f}) :
            \E stage \in {"Install"} \cup
                          (IF AutoReboot THEN {"PowerOff", "PowerOn"} ELSE {}) :
              \E file \in IF stage = "Install" THEN BOOLEAN ELSE {TRUE} :
                LET D == P \cap Expired
                    I == P \cap ToInstall
                    fname == Reservations[f].ResName
                IN  /\ Reservations' = drop(Reservations, D)
                    /\ Schedule' = purge(Schedule, D)
                    /\ pxe' = ((pxe \ namesOf(D)) \cup namesOf(I))
                                \cup (IF file THEN {fname} ELSE {})
                    /\ power' = [n \in ResNames |->
                         IF n \in namesOf(D) THEN ""
                         ELSE IF n \in namesOf(I) /\ AutoReboot THEN "on"
                         ELSE IF n = fname /\ stage = "PowerOn" THEN "off"
                         ELSE power[n]]
                    /\ ipc' = "idle"
                    /\ \E NF \in SUBSET (I \cup {f}) :
                         iret' = [op |-> "housekeeping", status |-> stage,
                                  expired |-> D, installed |-> I \cup {f},
                                  netFailed |-> NF, calls |-> callsUpTo(stage)]
  /\ UNCHANGED <<kvmVars, flockVars, mainVars>>

\* housekeeping done wrong: the error is logged and main goes on
housekeepingGoesOn ==
  /\ ipc = "idle"
  /\ UNCHANGED <<now, AutoReboot>>
  /\ \/ \* every reservation is handled, then expireSchedule and putSchedule
        /\ housekeepingLoop(Expired, ToInstall,
                            expireSchedule(purge(Schedule, Expired)))
        /\ ipc' = "cmd"
        /\ \E NF \in SUBSET ToInstall :
             iret' = [op |-> "housekeeping", status |-> "ok",
                      expired |-> Expired, installed |-> ToInstall,
                      netFailed |-> NF, calls |-> callsUpTo("PowerOn")]
     \/ \* log.Fatal at reservation f, after the reservations P: the range
        \* over the map takes them in any order
        \E f \in ToInstall :
          \E P \in SUBSET ((Expired \cup ToInstall) \ {f}) :
            \E stage \in {"Install"} \cup
                          (IF AutoReboot THEN {"PowerOff", "PowerOn"} ELSE {}) :
              \E file \in IF stage = "Install" THEN BOOLEAN ELSE {TRUE} :
                LET D == P \cap Expired
                    I == P \cap ToInstall
                    fname == Reservations[f].ResName
                IN  /\ Reservations' = drop(Reservations, D)
                    /\ Schedule' = purge(Schedule, D)
                    /\ pxe' = ((pxe \ namesOf(D)) \cup namesOf(I))
                                \cup (IF file THEN {fname} ELSE {})
                    /\ power' = [n \in ResNames |->
                         IF n \in namesOf(D) THEN ""
                         ELSE IF n \in namesOf(I) /\ AutoReboot THEN "on"
                         ELSE IF n = fname /\ stage = "PowerOn" THEN "off"
                         ELSE power[n]]
                    /\ ipc' = "cmd"
                    /\ \E NF \in SUBSET (I \cup {f}) :
                         iret' = [op |-> "housekeeping", status |-> stage,
                                  expired |-> D, installed |-> I \cup {f},
                                  netFailed |-> NF, calls |-> callsUpTo(stage)]
  /\ UNCHANGED <<kvmVars, flockVars, mainVars>>

housekeeping ==
  /\ ipc = "idle"
  /\ UNCHANGED <<now, AutoReboot>>
  /\ \/ \* every reservation is handled, then expireSchedule and putSchedule
        /\ housekeepingLoop(Expired, ToInstall,
                            expireSchedule(purge(Schedule, Expired)))
        /\ ipc' = "cmd"
        /\ \E NF \in SUBSET ToInstall :
             iret' = [op |-> "housekeeping", status |-> "ok",
                      expired |-> Expired, installed |-> ToInstall,
                      netFailed |-> NF, calls |-> callsUpTo("PowerOn")]
     \/ \* log.Fatal at reservation f, after the reservations P: the range
        \* over the map takes them in any order
        \E f \in ToInstall :
          \E P \in SUBSET ((Expired \cup ToInstall) \ {f}) :
            \E stage \in {"Install"} \cup
                          (IF AutoReboot THEN {"PowerOff", "PowerOn"} ELSE {}) :
              \E file \in IF stage = "Install" THEN BOOLEAN ELSE {TRUE} :
                LET D == P \cap Expired
                    I == P \cap ToInstall
                    fname == Reservations[f].ResName
                IN  /\ Reservations' = drop(Reservations, D)
                    /\ Schedule' = purge(Schedule, D)
                    /\ pxe' = ((pxe \ namesOf(D)) \cup namesOf(I))
                                \cup (IF file THEN {fname} ELSE {})
                    /\ power' = [n \in ResNames |->
                         IF n \in namesOf(D) THEN ""
                         ELSE IF n \in namesOf(I) /\ AutoReboot THEN "on"
                         ELSE IF n = fname /\ stage = "PowerOn" THEN "off"
                         ELSE power[n]]
                    /\ ipc' = "idle"
                    /\ \E NF \in SUBSET (I \cup {f}) :
                         iret' = [op |-> "housekeeping", status |-> stage,
                                  expired |-> D, installed |-> I \cup {f},
                                  netFailed |-> NF, calls |-> callsUpTo(stage)]
  /\ UNCHANGED <<kvmVars, flockVars, mainVars>>

(***************************************************************************)
(* sub: the allocator                                                      *)
(***************************************************************************)
\* the nodes free in every slice of the window first..last of sched
freeIn(sched, first, last) ==
  {n \in Nodes : \A j \in first..last : sched[j].Nodes[n] = 0}

\* the hosts the request gets in the window, {} if it does not fit
\* req is [count |-> n] or [hosts |-> set of nodes]
fit(sched, first, last, req) ==
  LET free == freeIn(sched, first, last)
  IN  IF "count" \in DOMAIN req
        THEN IF Cardinality(free) >= req.count THEN lowest(free, req.count) ELSE {}
        ELSE IF req.hosts \subseteq free THEN req.hosts ELSE {}

\* the requests of sub
Requests ==
  {[count |-> n] : n \in 1..NumNodes}
    \cup {[hosts |-> H] : H \in (SUBSET Nodes) \ {{}}}

\* allocate that takes the last window that fits
allocateLast(sched0, req, duration, after) ==
  LET sched == extendSchedule(sched0, after + duration * 60 + MinSched * 60)
      k == CeilDiv(duration * 60, SliceLen)
      windows == {w \in 1..(Len(sched) - k + 1) :
                    /\ sched[w].Start >= after
                    /\ fit(sched, w, w + k - 1, req) # {}}
  IN  IF windows = {}
        THEN [ok |-> FALSE]
        ELSE LET w == CHOOSE x \in windows : \A y \in windows : x >= y
             IN  [ok |-> TRUE, sched |-> sched, first |-> w, last |-> w + k - 1,
                  hosts |-> fit(sched, w, w + k - 1, req),
                  start |-> sched[w].Start,
                  end |-> sched[w].Start + duration * 60]

\* the allocator: the schedule extended to the horizon, the first window of
\* k slices from after on in which the request fits, and the hosts it gets
allocate(sched0, req, duration, after) ==
  LET sched == extendSchedule(sched0, after + duration * 60 + MinSched * 60)
      k == CeilDiv(duration * 60, SliceLen)
      windows == {w \in 1..(Len(sched) - k + 1) :
                    /\ sched[w].Start >= after
                    /\ fit(sched, w, w + k - 1, req) # {}}
  IN  IF windows = {}
        THEN [ok |-> FALSE]
        ELSE LET w == CHOOSE x \in windows : \A y \in windows : x <= y
             IN  [ok |-> TRUE, sched |-> sched, first |-> w, last |-> w + k - 1,
                  hosts |-> fit(sched, w, w + k - 1, req),
                  start |-> sched[w].Start,
                  end |-> sched[w].Start + duration * 60]

sub(name, req, duration, after) ==
  /\ ipc = "cmd"
  /\ ipc' = "idle"
  /\ UNCHANGED <<now, pxe, power, AutoReboot>>
  /\ LET a == allocate(Schedule, req, duration, after)
         free == (1..MaxRes) \ DOMAIN Reservations
     IN  /\ Len(extendSchedule(Schedule, after + duration * 60 + MinSched * 60))
              <= MaxSlices
         /\ IF byName(name) # {} \/ ~a.ok \/ free = {}
              THEN /\ iret' = [op |-> "sub", status |-> "error"]
                   /\ UNCHANGED <<Reservations, Schedule>>
              ELSE \E id \in free :
                     LET r == [ID |-> id, ResName |-> name, Hosts |-> a.hosts,
                               StartTime |-> a.start, EndTime |-> a.end]
                     IN  /\ Schedule' = mark(a.sched, a.first, a.last, a.hosts, id)
                         /\ Reservations' =
                              [i \in DOMAIN Reservations \cup {id} |->
                                 IF i = id THEN r ELSE Reservations[i]]
                         /\ iret' = [op |-> "sub", status |-> "ok"]
  /\ UNCHANGED <<kvmVars, flockVars, mainVars>>

(***************************************************************************)
(* extend                                                                  *)
(***************************************************************************)
\* extend that takes the slices whoever holds them
extendOverwrites(name, extra) ==
  /\ ipc = "cmd"
  /\ ipc' = "idle"
  /\ UNCHANGED <<now, pxe, power, AutoReboot>>
  /\ IF byName(name) = {}
       THEN /\ iret' = [op |-> "extend", status |-> "error"]
            /\ UNCHANGED <<Reservations, Schedule>>
       ELSE LET id == CHOOSE i \in byName(name) : TRUE
                r == Reservations[id]
                k == CeilDiv(extra * 60, SliceLen)
                sched == extendSchedule(Schedule, r.EndTime + k * SliceLen)
                next == {j \in DOMAIN sched :
                           /\ sched[j].Start >= r.EndTime
                           /\ sched[j].Start < r.EndTime + k * SliceLen}
                ok == /\ Cardinality(next) = k
                      /\ \A j \in next, n \in r.Hosts : sched[j].Nodes[n] \in 0..MaxRes
            IN  /\ Len(sched) <= MaxSlices
                /\ IF ok
                     THEN /\ Schedule' =
                               [j \in DOMAIN sched |->
                                  IF j \in next
                                    THEN [sched[j] EXCEPT !.Nodes = [n \in Nodes |->
                                            IF n \in r.Hosts THEN id ELSE sched[j].Nodes[n]]]
                                    ELSE sched[j]]
                          /\ Reservations' =
                               [Reservations EXCEPT ![id].EndTime = r.EndTime + extra * 60]
                          /\ iret' = [op |-> "extend", status |-> "ok"]
                     ELSE /\ iret' = [op |-> "extend", status |-> "error"]
                          /\ UNCHANGED <<Reservations, Schedule>>
  /\ UNCHANGED <<kvmVars, flockVars, mainVars>>

extend(name, extra) ==
  /\ ipc = "cmd"
  /\ ipc' = "idle"
  /\ UNCHANGED <<now, pxe, power, AutoReboot>>
  /\ IF byName(name) = {}
       THEN /\ iret' = [op |-> "extend", status |-> "error"]
            /\ UNCHANGED <<Reservations, Schedule>>
       ELSE LET id == CHOOSE i \in byName(name) : TRUE
                r == Reservations[id]
                k == CeilDiv(extra * 60, SliceLen)
                sched == extendSchedule(Schedule, r.EndTime + k * SliceLen)
                next == {j \in DOMAIN sched :
                           /\ sched[j].Start >= r.EndTime
                           /\ sched[j].Start < r.EndTime + k * SliceLen}
                ok == /\ Cardinality(next) = k
                      /\ \A j \in next, n \in r.Hosts : sched[j].Nodes[n] \in {0, id}
            IN  /\ Len(sched) <= MaxSlices
                /\ IF ok
                     THEN /\ Schedule' =
                               [j \in DOMAIN sched |->
                                  IF j \in next
                                    THEN [sched[j] EXCEPT !.Nodes = [n \in Nodes |->
                                            IF n \in r.Hosts THEN id ELSE sched[j].Nodes[n]]]
                                    ELSE sched[j]]
                          /\ Reservations' =
                               [Reservations EXCEPT ![id].EndTime = r.EndTime + extra * 60]
                          /\ iret' = [op |-> "extend", status |-> "ok"]
                     ELSE /\ iret' = [op |-> "extend", status |-> "error"]
                          /\ UNCHANGED <<Reservations, Schedule>>
  /\ UNCHANGED <<kvmVars, flockVars, mainVars>>

(***************************************************************************)
(* del                                                                     *)
(***************************************************************************)
del(name) ==
  /\ ipc = "cmd"
  /\ ipc' = "idle"
  /\ UNCHANGED <<now, AutoReboot>>
  /\ IF byName(name) = {}
       THEN /\ iret' = [op |-> "del", status |-> "error"]
            /\ UNCHANGED <<Reservations, Schedule, pxe, power>>
       ELSE /\ deleteReservation(byName(name), Schedule)
            /\ iret' = [op |-> "del", status |-> "ok"]
  /\ UNCHANGED <<kvmVars, flockVars, mainVars>>

\* a command that changes nothing: show, or a name that is no command
show ==
  /\ ipc = "cmd"
  /\ ipc' = "idle"
  /\ iret' = [op |-> "show", status |-> "ok"]
  /\ UNCHANGED <<Reservations, Schedule, now, pxe, power, AutoReboot>>
  /\ UNCHANGED <<kvmVars, flockVars, mainVars>>

\* time passes between two invocations: to the second after the start of a
\* slice, then to the start of the next slice
Tick ==
  /\ ipc = "idle"
  /\ now' = IF now % SliceLen = 0 THEN now + 1 ELSE Aligned(now) + SliceLen
  /\ now' < MaxTime * SliceLen
  /\ iret' = NoIret
  /\ UNCHANGED <<Reservations, Schedule, pxe, power, AutoReboot, ipc>>
  /\ UNCHANGED <<kvmVars, flockVars, mainVars>>

\* ---- main: the locks of one invocation among several ----

\* the process is gone: the kernel closes its files, which drops its locks
exit(p) ==
  /\ resdb' = resdb \ {p}
  /\ scheddb' = scheddb \ {p}
  /\ mpc' = [mpc EXCEPT ![p] = "none"]

\* igor is started; reservations.json is opened, or log.Fatal
Invoke(p) ==
  /\ mpc[p] = "none"
  /\ runs[p] < MaxRuns
  /\ runs' = [runs EXCEPT ![p] = @ + 1]
  /\ \/ mpc' = [mpc EXCEPT ![p] = "flockRes"]
     \/ mpc' = mpc
  /\ UNCHANGED <<resdb, scheddb>>
  /\ UNCHANGED <<kvmVars, igorData, mainVars>>

\* FlockRes done wrong: LOCK_EX is granted while another holds it
FlockResShared(p) ==
  /\ mpc[p] = "flockRes"
  /\ resdb' = resdb \cup {p}
  /\ mpc' = [mpc EXCEPT ![p] = "flockSched"]
  /\ UNCHANGED <<scheddb, runs>>
  /\ UNCHANGED <<kvmVars, igorData, mainVars>>

\* syscall.Flock(resdb, LOCK_EX) blocks until no one holds the lock; then
\* getReservations and the open of schedule.gob
FlockRes(p) ==
  /\ mpc[p] = "flockRes"
  /\ resdb = {}
  /\ resdb' = resdb \cup {p}
  /\ mpc' = [mpc EXCEPT ![p] = "flockSched"]
  /\ UNCHANGED <<scheddb, runs>>
  /\ UNCHANGED <<kvmVars, igorData, mainVars>>

\* syscall.Flock(scheddb, LOCK_EX) blocks until no one holds the lock; then
\* getSchedule
FlockSched(p) ==
  /\ mpc[p] = "flockSched"
  /\ scheddb = {}
  /\ scheddb' = scheddb \cup {p}
  /\ mpc' = [mpc EXCEPT ![p] = "housekeeping"]
  /\ UNCHANGED <<resdb, runs>>
  /\ UNCHANGED <<kvmVars, igorData, mainVars>>

\* Flock gives an error (a signal, a file that could not be opened):
\* log.Fatal
FlockErr(p) ==
  /\ mpc[p] \in {"flockRes", "flockSched"}
  /\ exit(p)
  /\ UNCHANGED runs
  /\ UNCHANGED <<kvmVars, igorData, mainVars>>

\* housekeeping under both locks: it returns, or log.Fatal
Housekeep(p) ==
  /\ mpc[p] = "housekeeping"
  /\ \/ /\ mpc' = [mpc EXCEPT ![p] = "cmd"]
        /\ UNCHANGED <<resdb, scheddb>>
     \/ exit(p)
  /\ UNCHANGED runs
  /\ UNCHANGED <<kvmVars, igorData, mainVars>>

\* the subcommand under both locks: it returns to main, or log.Fatal
Command(p) ==
  /\ mpc[p] = "cmd"
  /\ \/ /\ mpc' = [mpc EXCEPT ![p] = "unlockSched"]
        /\ UNCHANGED <<resdb, scheddb>>
     \/ exit(p)
  /\ UNCHANGED runs
  /\ UNCHANGED <<kvmVars, igorData, mainVars>>

\* the deferred calls of main run last in, first out: LOCK_UN on
\* schedule.gob and its Close
UnlockSched(p) ==
  /\ mpc[p] = "unlockSched"
  /\ scheddb' = scheddb \ {p}
  /\ mpc' = [mpc EXCEPT ![p] = "unlockRes"]
  /\ UNCHANGED <<resdb, runs>>
  /\ UNCHANGED <<kvmVars, igorData, mainVars>>

\* then LOCK_UN on reservations.json and its Close, and main is over
UnlockRes(p) ==
  /\ mpc[p] = "unlockRes"
  /\ resdb' = resdb \ {p}
  /\ mpc' = [mpc EXCEPT ![p] = "none"]
  /\ UNCHANGED <<scheddb, runs>>
  /\ UNCHANGED <<kvmVars, igorData, mainVars>>

\* ---- main: one invocation from its arguments to its exit status ----

\* a file of the state: empty, one that parses, one that does not
Contents == {"empty", "valid", "garbage"}

\* args[0]: none, help, version, a command of the table, a name that is none
Args0 == {"", "help", "version", "show", "frobnicate"}

\* main returns: the deferred LOCK_UN and Close run, and a Go process whose
\* main returns exits with status 0
mainReturn ==
  /\ mainpc' = "exited"
  /\ held' = {}
  /\ exitCode' = 0
  /\ steps' = Append(steps, "return")

\* log.Fatal: the message, then os.Exit(1); the kernel drops the locks
Fatal ==
  /\ mainpc' = "exited"
  /\ held' = {}
  /\ exitCode' = 1
  /\ steps' = Append(steps, "Fatal")

\* setExitStatus
setExitStatus(n) ==
  exitStatus' = IF exitStatus < n THEN n ELSE exitStatus

\* flag.Parse, then the test of args: usage (os.Exit(2)) when there is
\* none, help and version return at once
MainArgs ==
  /\ mainpc = "args"
  /\ UNCHANGED <<args0, files, loaded, exitStatus>>
  /\ IF args0 = ""
       THEN /\ mainpc' = "exited"
            /\ exitCode' = 2
            /\ steps' = Append(steps, "usage")
            /\ UNCHANGED held
       ELSE IF args0 \in {"help", "version"}
       THEN /\ mainpc' = "exited"
            /\ exitCode' = 0
            /\ steps' = steps \o <<args0, "return">>
            /\ UNCHANGED held
       ELSE /\ mainpc' = "config"
            /\ UNCHANGED <<held, exitCode, steps>>
  /\ UNCHANGED <<kvmVars, igorData, flockVars>>

\* readConfig and the logfile, then the open of reservations.json: each
\* may end in log.Fatal
MainConfig ==
  /\ mainpc = "config"
  /\ UNCHANGED <<args0, files, loaded, exitStatus>>
  /\ \/ mainpc' = "flockRes" /\ UNCHANGED <<held, exitCode, steps>>
     \/ Fatal
  /\ UNCHANGED <<kvmVars, igorData, flockVars>>

\* syscall.Flock(resdb, LOCK_EX), or log.Fatal
MainFlockRes ==
  /\ mainpc = "flockRes"
  /\ UNCHANGED <<args0, files, loaded, exitStatus>>
  /\ \/ /\ held' = held \cup {"reservations"}
        /\ steps' = Append(steps, "lock reservations")
        /\ mainpc' = "getReservations"
        /\ UNCHANGED exitCode
     \/ Fatal
  /\ UNCHANGED <<kvmVars, igorData, flockVars>>

\* what Decode leaves of a file: an empty file gives io.EOF and the
\* collection stays the empty one it was made as
decoded(c) == IF c = "empty" THEN "none" ELSE "some"

\* getReservations done wrong: every error of Decode is let through
getReservationsAnyway ==
  /\ mainpc = "getReservations"
  /\ UNCHANGED <<args0, files, exitStatus>>
  /\ loaded' = [loaded EXCEPT !.reservations = decoded(files.reservations)]
  /\ steps' = Append(steps, "load reservations")
  /\ mainpc' = "flockSched"
  /\ UNCHANGED <<held, exitCode>>
  /\ UNCHANGED <<kvmVars, igorData, flockVars>>

\* getReservations, then the open of schedule.gob, whose failure is only
\* logged
getReservations ==
  /\ mainpc = "getReservations"
  /\ UNCHANGED <<args0, files, exitStatus>>
  /\ IF files.reservations = "garbage"
       THEN Fatal /\ UNCHANGED loaded
       ELSE /\ loaded' = [loaded EXCEPT
                            !.reservations = decoded(files.reservations)]
            /\ steps' = Append(steps, "load reservations")
            /\ mainpc' = "flockSched"
            /\ UNCHANGED <<held, exitCode>>
  /\ UNCHANGED <<kvmVars, igorData, flockVars>>

\* syscall.Flock(scheddb, LOCK_EX), or log.Fatal (also when the file could
\* not be opened: Flock of no file fails)
MainFlockSched ==
  /\ mainpc = "flockSched"
  /\ UNCHANGED <<args0, files, loaded, exitStatus>>
  /\ \/ /\ held' = held \cup {"schedule"}
        /\ steps' = Append(steps, "lock schedule")
        /\ mainpc' = "getSchedule"
        /\ UNCHANGED exitCode
     \/ Fatal
  /\ UNCHANGED <<kvmVars, igorData, flockVars>>

\* getSchedule
getSchedule ==
  /\ mainpc = "getSchedule"
  /\ UNCHANGED <<args0, files, exitStatus>>
  /\ IF files.schedule = "garbage"
       THEN Fatal /\ UNCHANGED loaded
       ELSE /\ loaded' = [loaded EXCEPT !.schedule = decoded(files.schedule)]
            /\ steps' = Append(steps, "load schedule")
            /\ mainpc' = "housekeeping"
            /\ UNCHANGED <<held, exitCode>>
  /\ UNCHANGED <<kvmVars, igorData, flockVars>>

\* housekeeping() in main: it returns, or log.Fatal
MainHousekeeping ==
  /\ mainpc = "housekeeping"
  /\ UNCHANGED <<args0, files, loaded, exitStatus>>
  /\ \/ /\ steps' = Append(steps, "housekeeping")
        /\ mainpc' = "cmd"
        /\ UNCHANGED <<held, exitCode>>
     \/ /\ mainpc' = "exited"
        /\ held' = {}
        /\ exitCode' = 1
        /\ steps' = steps \o <<"housekeeping", "Fatal">>
  /\ UNCHANGED <<kvmVars, igorData, flockVars>>

\* the loop over commands: cmd.Run of the command named, then return; for a
\* name that is no command the message, setExitStatus(2), and main is over
MainCommand ==
  /\ mainpc = "cmd"
  /\ UNCHANGED <<args0, files, loaded>>
  /\ IF args0 = "show"
       THEN /\ UNCHANGED exitStatus
            /\ \/ /\ mainpc' = "exited"
                  /\ held' = {}
                  /\ exitCode' = 0
                  /\ steps' = steps \o <<"subcommand", "return">>
               \/ /\ mainpc' = "exited"
                  /\ held' = {}
                  /\ exitCode' = 1
                  /\ steps' = steps \o <<"subcommand", "Fatal">>
       ELSE /\ setExitStatus(2)
            /\ mainReturn
  /\ UNCHANGED <<kvmVars, igorData, flockVars>>

\* no invocation of main is followed
MainAtRest ==
  /\ args0 = ""
  /\ files = [reservations |-> "empty", schedule |-> "empty"]
  /\ mainpc = "exited"
  /\ held = {}
  /\ loaded = [reservations |-> "none", schedule |-> "none"]
  /\ exitStatus = 0
  /\ exitCode = 0
  /\ steps = <<>>

\* igor is started with some arguments on some files
InitMain ==
  /\ args0 \in Args0
  /\ files \in [reservations : Contents, schedule : Contents]
  /\ mainpc = "args"
  /\ held = {}
  /\ loaded = [reservations |-> "none", schedule |-> "none"]
  /\ exitStatus = 0
  /\ exitCode = -1
  /\ steps = <<>>

NextMain ==
  \/ MainArgs
  \/ MainConfig
  \/ MainFlockRes
  \/ getReservations
  \/ MainFlockSched
  \/ getSchedule
  \/ MainHousekeeping
  \/ MainCommand

InitFlock ==
  /\ resdb = {}
  /\ scheddb = {}
  /\ mpc = [p \in Procs |-> "none"]
  /\ runs = [p \in Procs |-> 0]

NextFlock ==
  \E p \in Procs :
    \/ Invoke(p)
    \/ FlockRes(p)
    \/ FlockSched(p)
    \/ FlockErr(p)
    \/ Housekeep(p)
    \/ Command(p)
    \/ UnlockSched(p)
    \/ UnlockRes(p)

\* a lock that is free is given to one that waits for it, and an invocation
\* that runs keeps running
FairFlock ==
  \A p \in Procs :
    /\ WF_vars(FlockRes(p))
    /\ WF_vars(FlockSched(p))
    /\ WF_vars(Housekeep(p))
    /\ WF_vars(Command(p))
    /\ WF_vars(UnlockSched(p))
    /\ WF_vars(UnlockRes(p))

InitIgor ==
  /\ Reservations = << >>
  /\ Schedule = <<>>
  /\ now = 0
  /\ pxe = {}
  /\ power = [n \in ResNames |-> ""]
  /\ AutoReboot \in BOOLEAN
  /\ ipc = "idle"
  /\ iret = NoIret
  /\ InitFlock

NextIgor ==
  \/ housekeeping
  \/ \E name \in ResNames, req \in Requests, duration \in 1..MaxDuration,
        after \in {now, Aligned(now) + SliceLen} : sub(name, req, duration, after)
  \/ \E name \in ResNames, extra \in 1..MaxDuration : extend(name, extra)
  \/ \E name \in ResNames : del(name)
  \/ show
  \/ Tick

(***************************************************************************)
(* VMConfig.qemuArgs: the PCI bridges, the NICs and the virtio-serial       *)
(* devices. args holds the devices in the order of the argument list        *)
(***************************************************************************)
\* addBus done wrong: the addresses of the new bus start at 0
addBusFromZero(st) ==
  [st EXCEPT !.addr = 0,
             !.bus = @ + 1,
             !.args = Append(@, [dev |-> "pci-bridge", bus |-> st.bus + 1])]

\* addBus: a bridge for the next bus, whose addresses start at 1 because 0
\* is reserved
addBus(st) ==
  [st EXCEPT !.addr = 1,
             !.bus = @ + 1,
             !.args = Append(@, [dev |-> "pci-bridge", bus |-> st.bus + 1])]

\* place done wrong: the bridge comes one address late
placeLate(st, d) ==
  LET put == [st EXCEPT !.args = Append(@, d @@ [bus |-> st.bus, addr |-> st.addr]),
                        !.addr = @ + 1]
  IN  IF put.addr = DEV_PER_BUS + 1 THEN addBus(put) ELSE put

\* the device d at bus and addr, then addr++ and addBus if we have run out
\* of addr slots on this bus
place(st, d) ==
  LET put == [st EXCEPT !.args = Append(@, d @@ [bus |-> st.bus, addr |-> st.addr]),
                        !.addr = @ + 1]
  IN  IF put.addr = DEV_PER_BUS THEN addBus(put) ELSE put

\* the tokens a configuration may have in QemuAppend
Appends == {<<>>, <<"-uuid", "1234">>, <<"-pidfile", "/tmp/pid">>}

\* filepath.Join(vmPath, name)
Join(name) == <<"vmPath", name>>

\* headArgs done wrong: the pidfile is written to the working directory
headArgsPidHere ==
  << [dev |-> "-enable-kvm"],
     [dev |-> "-pidfile", value |-> <<".", "qemu.pid">>],
     [dev |-> "-drive", value |-> "media=cdrom"] >>

\* the options up to the net code, for a configuration whose SerialPorts,
\* CPU, MigratePath, DiskPaths, Snapshot, KernelPath, InitrdPath, Append and
\* CdromPath are zero values. An option is its flag dev and, if it has one,
\* its value
headArgs ==
  << [dev |-> "-enable-kvm"],
     [dev |-> "-name", value |-> "id"],
     [dev |-> "-m", value |-> "Memory"],
     [dev |-> "-nographic"],
     [dev |-> "-balloon", value |-> "none"],
     [dev |-> "-vnc", value |-> Join("vnc")],
     [dev |-> "-smp", value |-> "VCPUs"],
     [dev |-> "-qmp", value |-> Join("qmp")],
     [dev |-> "-vga", value |-> "std"],
     [dev |-> "-rtc", value |-> "clock=vm,base=utc"],
     [dev |-> "-device", value |-> "virtio-serial"],
     [dev |-> "-usb"],
     [dev |-> "-device", value |-> "usb-ehci,id=ehci"],
     [dev |-> "-device", value |-> "usb-tablet,bus=usb-bus.0"],
     [dev |-> "-pidfile", value |-> Join("qemu.pid")],
     [dev |-> "-k", value |-> "en-us"],
     [dev |-> "-net", value |-> "none"],
     [dev |-> "-S"],
     [dev |-> "-drive", value |-> "media=cdrom"] >>

\* the tokens of QemuAppend, as they are, then -uuid and vm.UUID
tailArgs ==
  [k \in DOMAIN vmConfig.QemuAppend |-> [dev |-> vmConfig.QemuAppend[k]]]
    \o << [dev |-> "-uuid", value |-> "UUID"] >>

\* var args []string and the options up to the net code
ArgsHead ==
  /\ qargs.pc = "head"
  /\ qargs' = [qargs EXCEPT !.args = @ \o headArgs, !.pc = "bus"]
  /\ UNCHANGED vmConfig
  /\ UNCHANGED <<Name, QemuPath, Networks, State, lock, pc, kill, killClosed,
                 cmds, wpc, kpc, kch, q, vncShim, shimOpen, killAck, hotplug,
                 CdromPath, qmpLog, ret, issued, count, vncVars, callVars,
               igorVars>>

\* var bus, addr int; addBus()
ArgsBus ==
  /\ qargs.pc = "bus"
  /\ qargs' = [addBus(qargs) EXCEPT !.pc = "net", !.i = 0]
  /\ UNCHANGED vmConfig
  /\ UNCHANGED <<Name, QemuPath, Networks, State, lock, pc, kill, killClosed,
                 cmds, wpc, kpc, kch, q, vncShim, shimOpen, killAck, hotplug,
                 CdromPath, qmpLog, ret, issued, count, vncVars, callVars,
               igorVars>>

\* one turn of the range over vm.Networks
ArgsNet ==
  /\ qargs.pc = "net"
  /\ qargs.i < vmConfig.Networks
  /\ qargs' = [place(qargs, [dev |-> "nic", id |-> qargs.i]) EXCEPT !.i = @ + 1]
  /\ UNCHANGED vmConfig
  /\ UNCHANGED <<Name, QemuPath, Networks, State, lock, pc, kill, killClosed,
                 cmds, wpc, kpc, kch, q, vncShim, shimOpen, killAck, hotplug,
                 CdromPath, qmpLog, ret, issued, count, vncVars, callVars,
               igorVars>>

\* virtio-serial0 and its port cc
ArgsCC ==
  /\ qargs.pc = "net"
  /\ qargs.i = vmConfig.Networks
  /\ LET dev == place(qargs, [dev |-> "virtio-serial-pci", id |-> 0])
     IN  qargs' = [dev EXCEPT
                     !.args = Append(@, [dev |-> "virtserialport", nr |-> 1, id |-> 0,
                                        name |-> "cc"]),
                     !.virtio_slot = 0, !.i = 0, !.pc = "ports"]
  /\ UNCHANGED vmConfig
  /\ UNCHANGED <<Name, QemuPath, Networks, State, lock, pc, kill, killClosed,
                 cmds, wpc, kpc, kch, q, vncShim, shimOpen, killAck, hotplug,
                 CdromPath, qmpLog, ret, issued, count, vncVars, callVars,
               igorVars>>

\* one turn of the loop over vm.VirtioPorts: a new virtio-serial-pci device
\* when the port number is 1, then the port
ArgsPort ==
  /\ qargs.pc = "ports"
  /\ qargs.i < vmConfig.VirtioPorts
  /\ LET nr == (qargs.i % DEV_PER_VIRTIO) + 1
         slot == IF nr = 1 THEN qargs.virtio_slot + 1 ELSE qargs.virtio_slot
         dev == IF nr = 1
                  THEN place(qargs, [dev |-> "virtio-serial-pci", id |-> slot])
                  ELSE qargs
     IN  qargs' = [dev EXCEPT
                     !.args = Append(@, [dev |-> "virtserialport", nr |-> nr, id |-> slot,
                                        name |-> <<"virtio-serial", qargs.i>>]),
                     !.virtio_slot = slot, !.i = @ + 1]
  /\ UNCHANGED vmConfig
  /\ UNCHANGED <<Name, QemuPath, Networks, State, lock, pc, kill, killClosed,
                 cmds, wpc, kpc, kch, q, vncShim, shimOpen, killAck, hotplug,
                 CdromPath, qmpLog, ret, issued, count, vncVars, callVars,
               igorVars>>

\* vm.QemuAppend, -uuid, return args (hugepagesMountPath is not set)
ArgsReturn ==
  /\ qargs.pc = "ports"
  /\ qargs.i = vmConfig.VirtioPorts
  /\ qargs' = [qargs EXCEPT !.args = @ \o tailArgs, !.pc = "done"]
  /\ UNCHANGED vmConfig
  /\ UNCHANGED <<Name, QemuPath, Networks, State, lock, pc, kill, killClosed,
                 cmds, wpc, kpc, kch, q, vncShim, shimOpen, killAck, hotplug,
                 CdromPath, qmpLog, ret, issued, count, vncVars, callVars,
               igorVars>>

\* qemuArgs at var args []string
ArgsStart ==
  qargs = [bus |-> 0, addr |-> 0, virtio_slot |-> 0, i |-> 0, args |-> <<>>,
           pc |-> "head"]

\* qemuArgs called on any configuration
InitArgs ==
  /\ vmConfig \in [Networks : 0..MaxNets, VirtioPorts : 0..MaxPorts,
                   QemuAppend : Appends]
  /\ ArgsStart

\* qemuArgs not looked at: the configuration vm0, two NICs and no port
ArgsAtRest ==
  /\ vmConfig = [Networks |-> 2, VirtioPorts |-> 0, QemuAppend |-> <<>>]
  /\ ArgsStart

NextArgs == ArgsHead \/ ArgsBus \/ ArgsNet \/ ArgsCC \/ ArgsPort \/ ArgsReturn

(***************************************************************************)
(* KvmVM.connectVNC: the listener, the accept loop and one goroutine for    *)
(* each accepted connection. remote is "open", "partial" (ended within a    *)
(* message), "failed" (an error is pending, reported to one read), "ended"  *)
(* or "closed"; local is "none", "open", "gone" (QEMU closed it) or "closed" *)
(***************************************************************************)
\* what the shim and the calls below leave alone
Rest == <<Name, QemuPath, Networks, State, lock, pc, kill, killClosed, cmds,
          wpc, kpc, kch, q, vncShim, shimOpen, killAck, hotplug, CdromPath,
          qmpLog, ret, issued, count, argVars, igorVars>>

\* net.Listen, go func() { defer l.Close() ...
ShimListen ==
  /\ listener = "none"
  /\ \/ listener' = "open" /\ acceptor' = "accept"
     \/ listener' = "closed" /\ acceptor' = "none"
  /\ UNCHANGED sessions
  /\ UNCHANGED <<Rest, callVars>>

\* vm.vncShim.Close() by the wait goroutine, once the process exited
ShimClose ==
  /\ listener = "open"
  /\ listener' = "closed"
  /\ UNCHANGED <<acceptor, sessions>>
  /\ UNCHANGED <<Rest, callVars>>

\* l.Accept returns a connection: go func() { defer remote.Close() ...
ShimAccept ==
  /\ acceptor = "accept"
  /\ listener = "open"
  /\ Len(sessions) < MaxSessions
  /\ sessions' = Append(sessions, [pc |-> "dial", remote |-> "open",
                                   local |-> "none", copy |-> "none",
                                   err |-> "none"])
  /\ UNCHANGED <<listener, acceptor>>
  /\ UNCHANGED <<Rest, callVars>>

\* l.Accept returns an error, of the closed listener or another: return,
\* and the deferred l.Close()
ShimAcceptErr ==
  /\ acceptor = "accept"
  /\ acceptor' = "done"
  /\ listener' = "closed"
  /\ UNCHANGED sessions
  /\ UNCHANGED <<Rest, callVars>>

\* net.Dial("unix", vm.path("vnc")), then go io.Copy(remote, local)
SessDial(s) ==
  /\ sessions[s].pc = "dial"
  /\ \/ sessions' = [sessions EXCEPT ![s].pc = "read", ![s].local = "open",
                                     ![s].copy = "run"]
     \/ sessions' = [sessions EXCEPT ![s].pc = "done", ![s].remote = "closed",
                                     ![s].err = "dial"]
  /\ UNCHANGED <<listener, acceptor>>
  /\ UNCHANGED <<Rest, callVars>>

\* what vnc.ReadClientMessage(tee) can give in session s: the read of remote
\* and, for what was read, the write to local
readErrs(s) ==
  LET x == sessions[s]
  IN  IF x.remote = "ended" THEN {"EOF"}
      ELSE IF x.remote = "partial" THEN {"unexpected EOF"}
      ELSE IF x.remote = "failed" THEN {"connection reset"}
      ELSE IF x.local = "gone" THEN {"broken pipe"}
      ELSE {"nil", "unknown client-to-server message", "decode"}

\* SessRead done wrong: only EOF ends the loop
SessReadOnlyEOF(s) ==
  /\ sessions[s].pc = "read"
  /\ \E e \in readErrs(s) :
       IF e = "EOF"
         THEN sessions' = [sessions EXCEPT ![s].pc = "done", ![s].err = e,
                                           ![s].remote = "closed",
                                           ![s].local = "closed"]
         ELSE sessions' = [sessions EXCEPT
                ![s].err = e,
                ![s].remote = IF @ \in {"partial", "failed"} THEN "ended" ELSE @]
  /\ UNCHANGED <<listener, acceptor>>
  /\ UNCHANGED <<Rest, callVars>>

\* one turn of the loop over vnc.ReadClientMessage: break on EOF and on
\* broken pipe, with the deferred local.Close() and remote.Close(); continue
\* on everything else. An error of the connection is reported to one read,
\* the reads after it give EOF
SessRead(s) ==
  /\ sessions[s].pc = "read"
  /\ \E e \in readErrs(s) :
       IF e \in {"EOF", "broken pipe"}
         THEN sessions' = [sessions EXCEPT ![s].pc = "done", ![s].err = e,
                                           ![s].remote = "closed",
                                           ![s].local = "closed"]
         ELSE sessions' = [sessions EXCEPT
                ![s].err = e,
                ![s].remote = IF @ \in {"partial", "failed"} THEN "ended" ELSE @]
  /\ UNCHANGED <<listener, acceptor>>
  /\ UNCHANGED <<Rest, callVars>>

\* io.Copy(remote, local) returns: local gave EOF or an error, or the write
\* to remote failed
SessCopyEnd(s) ==
  /\ sessions[s].copy = "run"
  /\ sessions[s].local # "open" \/ sessions[s].remote # "open"
  /\ sessions' = [sessions EXCEPT ![s].copy = "done"]
  /\ UNCHANGED <<listener, acceptor>>
  /\ UNCHANGED <<Rest, callVars>>

\* the client ends the connection, between two messages or within one, or
\* the connection fails
RemoteEnds(s) ==
  /\ sessions[s].remote = "open"
  /\ \E r \in {"ended", "partial", "failed"} :
       sessions' = [sessions EXCEPT ![s].remote = r]
  /\ UNCHANGED <<listener, acceptor>>
  /\ UNCHANGED <<Rest, callVars>>

\* QEMU closes its end of the unix socket
LocalEnds(s) ==
  /\ sessions[s].local = "open"
  /\ sessions' = [sessions EXCEPT ![s].local = "gone"]
  /\ UNCHANGED <<listener, acceptor>>
  /\ UNCHANGED <<Rest, callVars>>

\* connectVNC was not called
VncAtRest ==
  /\ listener = "none"
  /\ acceptor = "none"
  /\ sessions = <<>>

NextVnc ==
  \/ ShimListen
  \/ ShimClose
  \/ ShimAccept
  \/ ShimAcceptErr
  \/ \E s \in DOMAIN sessions : SessDial(s)
  \/ \E s \in DOMAIN sessions : SessRead(s)
  \/ \E s \in DOMAIN sessions : SessCopyEnd(s)
  \/ \E s \in DOMAIN sessions : RemoteEnds(s)
  \/ \E s \in DOMAIN sessions : LocalEnds(s)

\* the goroutines of the shim run when they can; Accept blocks while the
\* listener is open
FairVnc ==
  /\ WF_vars(listener = "closed" /\ ShimAcceptErr)
  /\ \A s \in 1..MaxSessions :
       /\ WF_vars(s \in DOMAIN sessions /\ SessDial(s))
       /\ WF_vars(s \in DOMAIN sessions /\ SessRead(s))
       /\ WF_vars(s \in DOMAIN sessions /\ SessCopyEnd(s))

(***************************************************************************)
(* KvmVM.QueryMigrate. A reply is the error of the QMP call, the status     *)
(* (absent, not a string, or a string) and the ram field (absent, not a     *)
(* map, or a map with total and transferred, -1 for a key that is absent).  *)
(* A float is the pair of its numerator and denominator                     *)
(***************************************************************************)
Statuses == {"absent", "not a string", "completed", "failed", "active",
             "setup"}

Rams == [kind : {"absent", "not a map"}, total : {-1}, transferred : {-1}]
        \cup [kind : {"map"}, total : -1..MaxRam, transferred : -1..MaxRam]

Replies == [err : BOOLEAN, status : Statuses, ram : Rams]

\* a return of QueryMigrate; a panic of the goroutine is the error "panic"
Ret3(status, completed, err) ==
  [status |-> status, completed |-> completed, err |-> err, returned |-> TRUE]

\* the body of QueryMigrate on the reply r: s.(string) panics on a status
\* that is no string; a status other than completed, failed and active
\* leaves the switch with ram nil, and ram["total"].(float64) panics on a
\* key that is absent
queryMigrate(r) ==
  IF r.err THEN Ret3("", <<0, 1>>, "qmp")
  ELSE IF r.status = "absent" THEN Ret3("", <<0, 1>>, "could not decode status")
  ELSE IF r.status = "not a string" THEN Ret3("", <<0, 1>>, "panic")
  ELSE IF r.status = "completed" THEN Ret3(r.status, <<100, 1>>, "")
  ELSE IF r.status = "failed" THEN Ret3(r.status, <<0, 1>>, "")
  ELSE IF r.status = "active" /\ r.ram.kind = "absent"
    THEN Ret3(r.status, <<0, 1>>, "could not decode ram segment")
  ELSE IF r.status = "active" /\ r.ram.kind = "not a map"
    THEN Ret3(r.status, <<0, 1>>, "invalid ram type")
  ELSE IF r.status # "active" \/ r.ram.total = -1 \/ r.ram.transferred = -1
    THEN Ret3(r.status, <<0, 1>>, "panic")
  ELSE IF r.ram.total = 0 THEN Ret3(r.status, <<0, 1>>, "zero total ram!")
  ELSE Ret3(r.status, <<r.ram.transferred, r.ram.total>>, "")

\* no call of QueryMigrate was made
NoMigrate ==
  [status |-> "", completed |-> <<0, 1>>, err |-> "", returned |-> FALSE]

QueryMigrate ==
  /\ ~migrate.returned
  /\ migrate' = queryMigrate(reply)
  /\ UNCHANGED reply
  /\ UNCHANGED <<Rest, vncVars, shotVars, copyVars, webVars, plugVars>>

\* the next call, with the next reply of QEMU
QueryMigrateAgain ==
  /\ migrate.returned
  /\ migrate' = NoMigrate
  /\ reply' \in Replies
  /\ UNCHANGED <<Rest, vncVars, shotVars, copyVars, webVars, plugVars>>

MigrateAtRest ==
  /\ reply = [err |-> TRUE, status |-> "absent",
              ram |-> [kind |-> "absent", total |-> -1, transferred |-> -1]]
  /\ migrate = queryMigrate(reply)

InitMigrate ==
  /\ reply \in Replies
  /\ migrate = NoMigrate

NextMigrate ==
  \/ QueryMigrate
  \/ QueryMigrateAgain

(***************************************************************************)
(* KvmVM.Screenshot, one step for each call it makes. shot.state is what    *)
(* vm.GetState() gives, shot.tmp the suffix of the temporary file           *)
(***************************************************************************)
Suffixes == 0..MaxSuffix

\* Screenshot returns err
ShotReturn(err) ==
  shot' = [shot EXCEPT !.pc = "returned", !.err = err]

\* vm.GetState()&VM_RUNNING == 0, then the name of the temporary file
ShotState ==
  /\ shot.pc = "state"
  /\ IF BitAnd(shot.state, VM_RUNNING) = 0
       THEN ShotReturn("vmNotRunning")
       ELSE \E suffix \in Suffixes :
              shot' = [shot EXCEPT !.pc = "screendump", !.tmp = suffix]
  /\ UNCHANGED tmpFiles
  /\ UNCHANGED <<Rest, vncVars, migrateVars, copyVars, webVars, plugVars>>

\* vm.q.Screendump(tmp): QEMU writes the file, or the command fails
ShotScreendump ==
  /\ shot.pc = "screendump"
  /\ \/ /\ tmpFiles' = tmpFiles \cup {shot.tmp}
        /\ shot' = [shot EXCEPT !.pc = "read", !.sent = TRUE, !.wrote = TRUE]
     \/ /\ shot' = [shot EXCEPT !.pc = "returned", !.sent = TRUE,
                                !.err = "q.Screendump"]
        /\ UNCHANGED tmpFiles
  /\ UNCHANGED <<Rest, vncVars, migrateVars, copyVars, webVars, plugVars>>

\* ioutil.ReadFile(tmp)
ShotReadFile ==
  /\ shot.pc = "read"
  /\ \/ shot' = [shot EXCEPT !.pc = "convert"]
     \/ ShotReturn("ioutil.ReadFile")
  /\ UNCHANGED tmpFiles
  /\ UNCHANGED <<Rest, vncVars, migrateVars, copyVars, webVars, plugVars>>

\* ppmToPng(ppmFile, size)
ShotPpmToPng ==
  /\ shot.pc = "convert"
  /\ \/ shot' = [shot EXCEPT !.pc = "remove"]
     \/ ShotReturn("ppmToPng")
  /\ UNCHANGED tmpFiles
  /\ UNCHANGED <<Rest, vncVars, migrateVars, copyVars, webVars, plugVars>>

\* os.Remove(tmp), then the PNG is returned
ShotRemove ==
  /\ shot.pc = "remove"
  /\ \/ /\ tmpFiles' = tmpFiles \ {shot.tmp}
        /\ ShotReturn("nil")
     \/ /\ ShotReturn("os.Remove")
        /\ UNCHANGED tmpFiles
  /\ UNCHANGED <<Rest, vncVars, migrateVars, copyVars, webVars, plugVars>>

\* a call of Screenshot in some state of the VM
NewShot(st) ==
  [pc |-> "state", state |-> st, tmp |-> 0, sent |-> FALSE, wrote |-> FALSE,
   err |-> ""]

\* the next call of Screenshot
ShotAgain ==
  /\ shot.pc = "returned"
  /\ \E st \in VMStates : shot' = NewShot(st)
  /\ UNCHANGED tmpFiles
  /\ UNCHANGED <<Rest, vncVars, migrateVars, copyVars, webVars, plugVars>>

ShotAtRest ==
  /\ shot = [NewShot(VM_BUILDING) EXCEPT !.pc = "returned",
                                         !.err = "vmNotRunning"]
  /\ tmpFiles = {}

InitShot ==
  /\ \E st \in VMStates : shot = NewShot(st)
  /\ tmpFiles = {}

NextShot ==
  \/ ShotState
  \/ ShotScreendump
  \/ ShotReadFile
  \/ ShotPpmToPng
  \/ ShotRemove
  \/ ShotAgain

(***************************************************************************)
(* KVMConfig.Copy, which KvmVM.Copy and NewKVM call. A slice field of a     *)
(* config is the number of the array behind it; heap gives the elements of  *)
(* each array. The arrays 1 to 4 are those of the config that is copied,    *)
(* the arrays 5 to 8 are there for make                                     *)
(***************************************************************************)
Fields == {"Append", "DiskPaths", "QemuAppend", "QemuOverride"}

Elems == {"a", "b"}

Slices == UNION {[1..n -> Elems] : n \in 0..MaxLen}

\* the array of each slice field of the config that is copied
Arrays == [Append |-> 1, DiskPaths |-> 2, QemuAppend |-> 3, QemuOverride |-> 4]

\* make([]string, len(x)) and copy(.., x): a new array with the elements of
\* array x
makeCopy(h, new, x) == [h EXCEPT ![new] = h[x]]

\* res := old copies the slice headers, so the arrays are shared; DiskPaths
\* and QemuAppend are then given arrays of their own
Copy ==
  /\ ~copied
  /\ resCfg' = [oldCfg EXCEPT !.DiskPaths = 5, !.QemuAppend = 6]
  /\ heap' = makeCopy(makeCopy(heap, 5, oldCfg.DiskPaths), 6, oldCfg.QemuAppend)
  /\ copied' = TRUE
  /\ UNCHANGED <<oldCfg, stored>>
  /\ UNCHANGED <<Rest, vncVars, migrateVars, shotVars, webVars, plugVars>>

\* c.f[i] = v, for c the config that was copied or the copy
Store(c, f, i, v) ==
  /\ copied
  /\ LET x == IF c = "old" THEN oldCfg[f] ELSE resCfg[f]
     IN  /\ i \in DOMAIN heap[x]
         /\ heap[x][i] # v
         /\ heap' = [heap EXCEPT ![x][i] = v]
  /\ stored' = c
  /\ UNCHANGED <<oldCfg, resCfg, copied>>
  /\ UNCHANGED <<Rest, vncVars, migrateVars, shotVars, webVars, plugVars>>

CopyAtRest ==
  /\ heap = [x \in 1..8 |-> <<>>]
  /\ oldCfg = Arrays
  /\ resCfg = Arrays
  /\ copied = FALSE
  /\ stored = ""

InitCopy ==
  /\ heap \in {h \in [1..8 -> Slices] : \A x \in 5..8 : h[x] = <<>>}
  /\ oldCfg = Arrays
  /\ resCfg = Arrays
  /\ copied = FALSE
  /\ stored = ""

NextCopy ==
  \/ Copy
  \/ \E c \in {"old", "res"}, f \in Fields, i \in 1..MaxLen, v \in Elems :
       Store(c, f, i, v)

(***************************************************************************)
(* miniweb's client: run sends a command to minimega over the connection   *)
(* mm, which it dials when there is none and redials after some errors.    *)
(* An error is a sequence of the parts of its message.                     *)
(***************************************************************************)
MaxConns == 3
Callers == 1..2

EPIPE == <<"write: ", "broken pipe">>
ENOENT == <<"dial unix: ", "no such file or directory">>
EDISCONNECTED == <<"requester disconnected">>
ERESET == <<"read: ", "connection reset by peer">>
EEOF == <<"EOF">>
ConnErrors == {EPIPE, ENOENT, EDISCONNECTED, ERESET, EEOF}

\* strings.Contains(s, substr), for a substr that is one part of a message
Contains(s, substr) == \E i \in DOMAIN s : s[i] = substr

NoCall == [pc |-> "idle", had |-> 0, s |-> <<>>, dials |-> 0, failed |-> FALSE,
           out |-> "", on |-> 0]

\* noOp(): a channel that is closed already
noOp(c) == [c EXCEPT !.out = "closed", !.pc = "unlock"]

\* run is called: the caller waits for mmMu
runCall(c) ==
  /\ calls[c].pc = "idle"
  /\ calls' = [calls EXCEPT ![c] = [NoCall EXCEPT !.pc = "lock"]]
  /\ UNCHANGED <<mmMu, mm, conns>>
  /\ UNCHANGED <<Rest, vncVars, migrateVars, shotVars, copyVars, plugVars>>

\* mmMu.Lock()
runLock(c) ==
  /\ calls[c].pc = "lock"
  /\ mmMu = 0
  /\ mmMu' = c
  /\ calls' = [calls EXCEPT ![c].pc = "dial", ![c].had = mm]
  /\ UNCHANGED <<mm, conns>>
  /\ UNCHANGED <<Rest, vncVars, migrateVars, shotVars, copyVars, plugVars>>

\* miniclient.Dial(*f_base): a new connection with no error, or nil and an
\* error
Dial(c, ok, then) ==
  IF ok
  THEN /\ Len(conns) < MaxConns
       /\ conns' = Append(conns, [ran |-> 0, err |-> <<>>])
       /\ mm' = Len(conns) + 1
       /\ calls' = [calls EXCEPT ![c].dials = @ + 1, ![c].pc = then]
  ELSE /\ mm' = 0
       /\ conns' = conns
       /\ calls' = [calls EXCEPT ![c] = noOp([@ EXCEPT !.dials = @ + 1,
                                                       !.failed = TRUE])]

\* if mm == nil: dial, and return noOp() when the dial fails
runDial(c) ==
  /\ calls[c].pc = "dial"
  /\ IF mm = 0
     THEN \E ok \in BOOLEAN : Dial(c, ok, "check")
     ELSE /\ calls' = [calls EXCEPT ![c].pc = "check"]
          /\ UNCHANGED <<mm, conns>>
  /\ UNCHANGED mmMu
  /\ UNCHANGED <<Rest, vncVars, migrateVars, shotVars, copyVars, plugVars>>

\* redialable done wrong: requester disconnected is left out
redials(s) ==
  \/ Contains(s, "broken pipe")
  \/ Contains(s, "no such file or directory")

\* s names one that a new connection should cure
redialable(s) ==
  \/ Contains(s, "broken pipe")
  \/ Contains(s, "no such file or directory")
  \/ Contains(s, "requester disconnected")

\* if err := mm.Error(); err != nil: which way the error sends run
runCheck(c) ==
  /\ calls[c].pc = "check"
  /\ LET s == conns[mm].err
     IN  calls' = [calls EXCEPT ![c] =
           IF s = <<>> THEN [@ EXCEPT !.pc = "run"]
           ELSE IF redialable(s) THEN [@ EXCEPT !.s = s, !.pc = "redial"]
           ELSE IF ~Contains(s, "requester disconnected")
                THEN noOp([@ EXCEPT !.s = s])
           ELSE [@ EXCEPT !.s = s, !.pc = "run"]]
  /\ UNCHANGED <<mmMu, mm, conns>>
  /\ UNCHANGED <<Rest, vncVars, migrateVars, shotVars, copyVars, plugVars>>

\* the redial, and noOp() when it fails
runRedial(c) ==
  /\ calls[c].pc = "redial"
  /\ \E ok \in BOOLEAN : Dial(c, ok, "run")
  /\ UNCHANGED mmMu
  /\ UNCHANGED <<Rest, vncVars, migrateVars, shotVars, copyVars, plugVars>>

\* return mm.Run(c.String())
runRun(c) ==
  /\ calls[c].pc = "run"
  /\ conns' = [conns EXCEPT ![mm].ran = 1]
  /\ calls' = [calls EXCEPT ![c].out = "run", ![c].on = mm, ![c].pc = "unlock"]
  /\ UNCHANGED <<mmMu, mm>>
  /\ UNCHANGED <<Rest, vncVars, migrateVars, shotVars, copyVars, plugVars>>

\* the deferred mmMu.Unlock(), as run returns
runUnlock(c) ==
  /\ calls[c].pc = "unlock"
  /\ mmMu' = 0
  /\ calls' = [calls EXCEPT ![c].pc = "idle"]
  /\ UNCHANGED <<mm, conns>>
  /\ UNCHANGED <<Rest, vncVars, migrateVars, shotVars, copyVars, plugVars>>

\* a command that was run on connection k fails: the connection records the
\* error that mm.Error() returns from then on
connError(k, e) ==
  /\ k \in DOMAIN conns
  /\ conns[k].ran = 1
  /\ conns[k].err = <<>>
  /\ conns' = [conns EXCEPT ![k].err = e]
  /\ UNCHANGED <<mmMu, mm, calls>>
  /\ UNCHANGED <<Rest, vncVars, migrateVars, shotVars, copyVars, plugVars>>

WebAtRest ==
  /\ mmMu = 0
  /\ mm = 0
  /\ conns = <<>>
  /\ calls = [c \in Callers |-> NoCall]

NextWeb ==
  \/ \E c \in Callers : runCall(c)
  \/ \E c \in Callers : runLock(c)
  \/ \E c \in Callers : runDial(c)
  \/ \E c \in Callers : runCheck(c)
  \/ \E c \in Callers : runRedial(c)
  \/ \E c \in Callers : runRun(c)
  \/ \E c \in Callers : runUnlock(c)
  \/ \E k \in 1..MaxConns, e \in ConnErrors : connError(k, e)

(***************************************************************************)
(* Hotplug, HotplugRemove and HotplugRemoveAll against QEMU's own drives   *)
(* and devices. The calls hold vm.lock from end to end, so each is one     *)
(* step. QEMU refuses to add a name that it holds and to delete one that   *)
(* it does not, and any command may fail for another reason.               *)
(***************************************************************************)
\* the table, the drives and the devices
plugState == [tab |-> hotplug, drives |-> drives, devices |-> devices]

\* the ways Hotplug can end for id: at drive_add, at device_add, or well
hotplugOuts(st, id) ==
  {"q.DriveAdd"}
    \cup (IF id \notin st.drives THEN {"q.USBDeviceAdd"} ELSE {})
    \cup (IF id \notin st.drives /\ id \notin st.devices THEN {"nil"} ELSE {})

\* Hotplug(f, ver) that ends with out: drive_add, device_add, then the entry
PlugHotplug(f, ver) ==
  /\ ver \in {"", "1.1", "2.0"}
  /\ NextHotplugId <= MaxId
  /\ LET version == IF ver = "" THEN "1.1" ELSE ver
         id == NextHotplugId
     IN  \E out \in hotplugOuts(plugState, id) :
           /\ drives' = IF out = "q.DriveAdd" THEN drives ELSE drives \cup {id}
           /\ devices' = IF out = "nil" THEN devices \cup {id} ELSE devices
           /\ hotplug' = IF out = "nil"
                         THEN [k \in DOMAIN hotplug \cup {id} |->
                                 IF k = id THEN [Disk |-> f, Version |-> version]
                                           ELSE hotplug[k]]
                         ELSE hotplug
           /\ issued' = IF out = "nil" THEN Max({issued, id}) ELSE issued
           /\ plug' = [op |-> "Hotplug", id |-> id, out |-> out,
                       held |-> id \in drives]
  /\ UNCHANGED <<Name, QemuPath, Networks, State, lock, pc, kill, killClosed,
                 cmds, wpc, kpc, kch, q, vncShim, shimOpen, killAck, CdromPath,
                 qmpLog, ret>>
  /\ UNCHANGED <<igorVars, argVars, count, vncVars, migrateVars, shotVars,
                 copyVars, webVars>>

\* the ways hotplugRemove(id) can end: device_del, then drive_del
plugRemoveOuts(st, id) ==
  IF id \notin DOMAIN st.tab THEN {"no such hotplug device"}
  ELSE {"q.USBDeviceDel"}
         \cup (IF id \in st.devices THEN {"q.DriveDel"} ELSE {})
         \cup (IF id \in st.devices /\ id \in st.drives THEN {"nil"} ELSE {})

\* hotplugRemove(id) that ends with out: what is left
plugRemove(st, id, out) ==
  [tab |-> hotplugRemoveTable(st.tab, id, out),
   devices |-> IF out \in {"q.DriveDel", "nil"} THEN st.devices \ {id}
               ELSE st.devices,
   drives |-> IF out = "nil" THEN st.drives \ {id} ELSE st.drives]

PlugRemove(id) ==
  /\ \E out \in plugRemoveOuts(plugState, id) :
       LET st == plugRemove(plugState, id, out)
       IN  /\ hotplug' = st.tab
           /\ drives' = st.drives
           /\ devices' = st.devices
           /\ plug' = [op |-> "HotplugRemove", id |-> id, out |-> out,
                       held |-> id \in drives]
  /\ UNCHANGED <<Name, QemuPath, Networks, State, lock, pc, kill, killClosed,
                 cmds, wpc, kpc, kch, q, vncShim, shimOpen, killAck, CdromPath,
                 qmpLog, ret>>
  /\ UNCHANGED <<igorVars, issued, argVars, count, vncVars, migrateVars,
                 shotVars, copyVars, webVars>>

\* the range over the table in the order o: what is left and the error that
\* stopped it, or nil
RECURSIVE plugRemoveAll(_, _)
plugRemoveAll(st, o) ==
  IF o = <<>> THEN {[st |-> st, out |-> "nil"]}
  ELSE UNION {IF out = "nil"
              THEN plugRemoveAll(plugRemove(st, Head(o), out), Tail(o))
              ELSE {[st |-> plugRemove(st, Head(o), out), out |-> out]} :
              out \in plugRemoveOuts(st, Head(o))}

PlugRemoveAll ==
  /\ IF DOMAIN hotplug = {}
     THEN /\ plug' = [op |-> "HotplugRemoveAll", id |-> 0,
                      out |-> "no hotplug devices to remove", held |-> FALSE]
          /\ UNCHANGED <<hotplug, drives, devices>>
     ELSE \E o \in Orders(DOMAIN hotplug) : \E r \in plugRemoveAll(plugState, o) :
            /\ hotplug' = r.st.tab
            /\ drives' = r.st.drives
            /\ devices' = r.st.devices
            /\ plug' = [op |-> "HotplugRemoveAll", id |-> 0, out |-> r.out,
                        held |-> FALSE]
  /\ UNCHANGED <<Name, QemuPath, Networks, State, lock, pc, kill, killClosed,
                 cmds, wpc, kpc, kch, q, vncShim, shimOpen, killAck, CdromPath,
                 qmpLog, ret>>
  /\ UNCHANGED <<igorVars, issued, argVars, count, vncVars, migrateVars,
                 shotVars, copyVars, webVars>>

PlugAtRest ==
  /\ drives = {}
  /\ devices = {}
  /\ plug = [op |-> "", id |-> 0, out |-> "", held |-> FALSE]

NextPlug ==
  \/ \E f \in Disks, ver \in Versions : PlugHotplug(f, ver)
  \/ \E id \in 0..MaxId : PlugRemove(id)
  \/ PlugRemoveAll

(***************************************************************************)
(* The instance after NewKVM: BUILDING, returned locked to the thread that *)
(* calls Launch                                                            *)
(***************************************************************************)
InitKVM ==
  /\ \E c \in Configs :
       /\ Name = c.Name
       /\ QemuPath = c.QemuPath
       /\ Networks = c.Networks
  /\ State = VM_BUILDING
  /\ lock = <<"thread", 1>>
  /\ pc = [t \in Threads |-> IF t = 1 THEN <<"Launch", "launch">> ELSE Idle]
  /\ kill = 0
  /\ killClosed = {}
  /\ cmds = <<>>
  /\ wpc = <<>>
  /\ kpc = <<>>
  /\ kch = <<>>
  /\ q = 0
  /\ vncShim = 0
  /\ shimOpen = {}
  /\ killAck = <<>>
  /\ hotplug = << >>
  /\ CdromPath = ""
  /\ qmpLog = <<>>
  /\ ret = NoRet
  /\ issued = -1
  /\ count = 0

\* the supervisor: Launch, Start, Stop, the operator's kill, the process and
\* the goroutines of launch
NextLifecycle ==
  \/ \E t \in Threads : Lock(t)
  \/ \E t \in Threads : Launch(t)
  \/ \E t \in Threads : Start(t)
  \/ \E t \in Threads : Stop(t)
  \/ Kill
  \/ \E g \in DOMAIN cmds : ProcExit(g)
  \/ \E g \in DOMAIN cmds : WaitLock(g)
  \/ \E g \in DOMAIN cmds : WaitBody(g)
  \/ \E g \in DOMAIN cmds : KillSelect(g)
  \/ \E g \in DOMAIN cmds : KillNatural(g)
  \/ \E g \in DOMAIN cmds : KillOperator(g)
  \/ \E g \in DOMAIN cmds : KillWaited(g)
  \/ \E g \in DOMAIN cmds : KillAckSend(g)

\* the operations on the devices of a VM
NextDevices ==
  \/ \E t \in Threads : Hotplug(t)
  \/ \E t \in Threads, id \in 0..(MaxId + 1) : HotplugRemove(t, id)
  \/ \E t \in Threads : HotplugRemoveAll(t)
  \/ \E t \in Threads, f \in Isos : ChangeCD(t, f)
  \/ \E t \in Threads : EjectCD(t)

\* igor at rest, with nothing reserved
IgorAtRest == InitIgor /\ ~AutoReboot

Init == InitKVM /\ IgorAtRest /\ ArgsAtRest /\ VncAtRest /\ MainAtRest
    /\ MigrateAtRest /\ ShotAtRest /\ CopyAtRest
    /\ WebAtRest /\ PlugAtRest

Next == NextLifecycle

Spec == Init /\ [][Next]_vars

\* one instance under every operation
InitOps == Init /\ Name = "vm0"

NextOps == NextLifecycle \/ NextDevices

SpecOps == InitOps /\ [][NextOps]_vars

\* igor alone: one invocation after another, each under the file locks
InitB == InitKVM /\ Name = "vm0" /\ InitIgor /\ ArgsAtRest /\ VncAtRest /\ MainAtRest
    /\ MigrateAtRest /\ ShotAtRest /\ CopyAtRest
    /\ WebAtRest /\ PlugAtRest

NextB == NextIgor

SpecIgor == InitB /\ [][NextB]_vars

InitF == InitKVM /\ IgorAtRest /\ ArgsAtRest /\ VncAtRest /\ MainAtRest
    /\ MigrateAtRest /\ ShotAtRest /\ CopyAtRest
    /\ WebAtRest /\ PlugAtRest

NextF == NextFlock

SpecFlock == InitF /\ [][NextF]_vars /\ FairFlock

\* qemuArgs alone, on every configuration
InitQ == InitKVM /\ Name = "vm0" /\ IgorAtRest /\ InitArgs /\ VncAtRest
    /\ MainAtRest /\ MigrateAtRest /\ ShotAtRest /\ CopyAtRest
    /\ WebAtRest /\ PlugAtRest

NextQ == NextArgs

SpecArgs == InitQ /\ [][NextQ]_vars

\* the VNC shim alone
InitV == Init /\ Name = "vm0"

NextV == NextVnc

SpecVnc == InitV /\ [][NextV]_vars /\ FairVnc

\* one invocation of igor, from main's first line to the exit
InitM == InitKVM /\ Name = "vm0" /\ IgorAtRest /\ ArgsAtRest /\ VncAtRest
    /\ InitMain /\ MigrateAtRest /\ ShotAtRest /\ CopyAtRest
    /\ WebAtRest /\ PlugAtRest

NextM == NextMain

SpecMain == InitM /\ [][NextM]_vars

\* the calls of QueryMigrate over every reply
InitC == InitKVM /\ Name = "vm0" /\ IgorAtRest /\ ArgsAtRest /\ VncAtRest
    /\ MainAtRest /\ InitMigrate /\ ShotAtRest /\ CopyAtRest
    /\ WebAtRest /\ PlugAtRest

NextC == NextMigrate

SpecCall == InitC /\ [][NextC]_vars

\* the calls of Screenshot in every state of the VM
InitS == InitKVM /\ Name = "vm0" /\ IgorAtRest /\ ArgsAtRest /\ VncAtRest
    /\ MainAtRest /\ MigrateAtRest /\ InitShot /\ CopyAtRest /\ WebAtRest /\ PlugAtRest

NextS == NextShot

SpecShot == InitS /\ [][NextS]_vars

\* a config is copied, then the two are written to
InitD == InitKVM /\ Name = "vm0" /\ IgorAtRest /\ ArgsAtRest /\ VncAtRest
    /\ MainAtRest /\ MigrateAtRest /\ ShotAtRest /\ InitCopy /\ WebAtRest /\ PlugAtRest

NextD == NextCopy

SpecCopy == InitD /\ [][NextD]_vars

\* the calls of miniweb's run, by two handlers at once
InitW == Init /\ Name = "vm0"

NextW == NextWeb

SpecWeb == InitW /\ [][NextW]_vars

\* the hotplug calls on a VM whose QEMU answers
InitP == Init /\ Name = "vm0"

NextP == NextPlug

SpecPlug == InitP /\ [][NextP]_vars

(***************************************************************************)
(* Scheduling. A thread inside an operation goes on to its return; a       *)
(* goroutine that can run does run; sync.Mutex hands the lock to a waiter  *)
(* that keeps asking (starvation mode); a process sent SIGKILL dies; the   *)
(* global killAck channel has a receiver. Nobody is bound to call an       *)
(* operation, and QEMU is not bound to exit by itself.                     *)
(***************************************************************************)
ThreadStep(t) == Launch(t) \/ Start(t) \/ Stop(t)

ProcDie(g) == g \in DOMAIN cmds /\ cmds[g].killed /\ ProcExit(g)

Fairness ==
  /\ \A t \in Threads : WF_vars(ThreadStep(t))
  /\ \A g \in 1..MaxLaunch :
       /\ WF_vars(ProcDie(g))
       /\ SF_vars(g \in DOMAIN cmds /\ WaitLock(g))
       /\ WF_vars(g \in DOMAIN cmds /\ WaitBody(g))
       /\ WF_vars(g \in DOMAIN cmds /\ KillSelect(g))
       /\ WF_vars(g \in DOMAIN cmds /\ KillNatural(g))
       /\ WF_vars(g \in DOMAIN cmds /\ KillOperator(g))
       /\ WF_vars(g \in DOMAIN cmds /\ KillWaited(g))
       /\ WF_vars(g \in DOMAIN cmds /\ KillAckSend(g))

SpecFair == Init /\ [][Next]_vars /\ Fairness

(***************************************************************************)
(* Properties of the supervisor                                            *)
(***************************************************************************)
Alive == {g \in DOMAIN cmds : cmds[g].alive}

\* the step is the return of operation op
Returns(op) == ret'.op = op /\ ret' # ret

\* C1: an instance has at most one live QEMU process, so Start on a VM in
\* QUIT or ERROR spawns a process only when every earlier one has exited
C1_OneLiveProcess == Cardinality(Alive) <= 1

\* C2: the state is one of the five, never RUNNING and PAUSED at once
C2_OneState ==
  /\ State \in VMStates
  /\ BitAnd(State, VM_RUNNING) = 0 \/ BitAnd(State, VM_PAUSED) = 0

\* C2: a step that takes the VM out of ERROR is the successful cont of a Start
\* that relaunched: QMP and the shim belong to the process spawned last
C2_LeavesErrorByRelaunch ==
  (State = VM_ERROR /\ State' # VM_ERROR) =>
    /\ \E t \in Threads : pc[t] = <<"Start", "cont">> /\ pc'[t] = Idle
    /\ ret' = [op |-> "Start", err |-> "nil"]
    /\ State' = VM_RUNNING
    /\ cur > 0 /\ q = cur /\ vncShim = cur /\ kpc[cur] # "none"

\* C2: once ERROR the state remains ERROR under Stop, the hotplug operations,
\* ChangeCD, EjectCD and the wait goroutine; only a Start whose relaunch
\* succeeded leaves ERROR; the state is never RUNNING and PAUSED at once
C2_ErrorSticky == [](C2_OneState) /\ [][C2_LeavesErrorByRelaunch]_vars

\* the wait goroutine handled a clean or killed exit of a VM that stays in ERROR
C2_Witness ==
  /\ State = VM_ERROR
  /\ ret.op = "wait"
  /\ ret.err \in {"nil", "signal: killed"}

\* C3: when launch returns an error, whatever the cause, the state is ERROR
\* and the QEMU process launch had started has been sent a kill
C3_LaunchErrorLeavesError ==
  (ret.op \in {"Launch", "Start"} /\ ret.err \in LaunchErrors) =>
    /\ State = VM_ERROR
    /\ ret.err \in {"connectQMP", "connectVNC"} =>
         ~(cmds[cur].alive /\ ~cmds[cur].killed)

\* C4 as claimed: Stop on a RUNNING VM sends stop and ends in PAUSED or ERROR;
\* in any other state it returns not-running, sends nothing, changes nothing
C4_StopStep ==
  Returns("Stop") =>
    IF State = VM_RUNNING
      THEN /\ qmpLog' = << <<"stop">> >>
           /\ \/ ret'.err = "nil" /\ State' = VM_PAUSED
              \/ ret'.err = "q.Stop" /\ State' = VM_ERROR
      ELSE /\ ret'.err = "vmNotRunning"
           /\ qmpLog' = <<>>
           /\ State' = State

C4_StopAsClaimed == [][C4_StopStep]_vars

\* C4: as claimed for a VM whose name is not vince; Stop on a VM named vince
\* returns an error in every state, sends no QMP command and leaves the state
C4_Stop ==
  [][Returns("Stop") =>
       IF Name = "vince"
         THEN ret'.err = "vince is unstoppable" /\ qmpLog' = <<>> /\ State' = State
         ELSE C4_StopStep]_vars

\* Stop paused a running VM
C4_Witness == ret = [op |-> "Stop", err |-> "nil"] /\ State = VM_PAUSED /\ qmpLog = << <<"stop">> >>

\* C5: the steps of Start
C5_StartStep ==
  /\ \* on a RUNNING VM nothing changes and nothing is sent
     \A t \in Threads :
       (pc[t] = Locked /\ pc'[t][1] \in {"Start", "idle"} /\ (pc'[t] = Idle => Returns("Start"))
          /\ BitAnd(State, VM_RUNNING) # 0) =>
         /\ ret' = [op |-> "Start", err |-> "nil"]
         /\ qmpLog' = <<>>
         /\ UNCHANGED <<State, kill, killClosed, cmds, wpc, kpc, kch, q, vncShim,
                        shimOpen, killAck, hotplug, CdromPath, Networks>>
  /\ \* on QUIT or ERROR the kill channel is replaced, then launch
     \A t \in Threads :
       (pc[t] = Locked /\ pc'[t][1] = "Start"
          /\ State \in {VM_QUIT, VM_ERROR}) =>
         /\ pc'[t] = <<"Start", "launch">>
         /\ kill' \notin killClosed'
         /\ \A g \in DOMAIN kpc : kpc[g] = "select" => kch[g] # kill'
  /\ \* in the other states cont comes next
     \A t \in Threads :
       (pc[t] = Locked /\ pc'[t][1] = "Start"
          /\ State \notin {VM_QUIT, VM_ERROR}) =>
         pc'[t] = <<"Start", "cont">> /\ kill' = kill
  /\ \* a failed relaunch is returned and no cont is sent
     \A t \in Threads :
       (pc[t][1] = "Start" /\ pc[t][2] \in {"launch", "qmp", "vnc"}) =>
         \/ pc'[t] = pc[t]
         \/ pc'[t][1] = "Start" /\ qmpLog' = <<>>
         \/ pc'[t] = Idle /\ Returns("Start") /\ ret'.err \in LaunchErrors /\ qmpLog' = <<>>
  /\ \* cont decides between RUNNING and ERROR
     \A t \in Threads :
       (pc[t] = <<"Start", "cont">> /\ pc'[t] # pc[t]) =>
         /\ qmpLog' = << <<"cont">> >>
         /\ \/ ret' = [op |-> "Start", err |-> "nil"] /\ State' = VM_RUNNING
            \/ ret' = [op |-> "Start", err |-> "q.Start"] /\ State' = VM_ERROR
  /\ \* RUNNING is reached only through a successful cont
     (State' = VM_RUNNING /\ State # VM_RUNNING) =>
       /\ \E t \in Threads : pc[t] = <<"Start", "cont">>
       /\ qmpLog' = << <<"cont">> >>
       /\ ret' = [op |-> "Start", err |-> "nil"]

\* C5: Start on a RUNNING VM changes nothing and sends nothing; on QUIT or
\* ERROR it replaces the kill channel and relaunches, returning a failure of
\* the relaunch without sending cont; otherwise it sends cont and ends in
\* RUNNING or ERROR; RUNNING is reached only through a successful cont
C5_Start == [][C5_StartStep]_vars

\* a Start that relaunched and whose cont succeeded
C5_Witness ==
  /\ ret = [op |-> "Start", err |-> "nil"]
  /\ State = VM_RUNNING
  /\ Len(cmds) = 2
  /\ qmpLog = << <<"cont">> >>

\* the exit transition of the wait goroutine of process g
C6_WaitStep ==
  \A g \in DOMAIN wpc :
    (wpc[g] = "locked" /\ wpc'[g] = "done") =>
      IF cmds[g].reason \notin {"nil", "signal: killed"}
        THEN State' = VM_ERROR
        ELSE IF State = VM_ERROR THEN State' = VM_ERROR ELSE State' = VM_QUIT

\* the process g exited and its wait goroutine has not made the transition
C6_Exited(g) == g \in DOMAIN cmds /\ ~cmds[g].alive /\ wpc[g] # "done"

\* the wait goroutine of process g made the transition
C6_Handled(g) == g \in DOMAIN wpc /\ wpc[g] = "done"

\* C6: whenever a launched QEMU process exits, the VM eventually reaches QUIT
\* or ERROR: ERROR when the exit reason is non-nil and not "signal: killed",
\* otherwise QUIT unless the state is ERROR already, in which case it stays
C6_ExitHandled ==
  /\ \A g \in 1..MaxLaunch :
       C6_Exited(g) ~> (C6_Handled(g) /\ State \in {VM_QUIT, VM_ERROR})
  /\ [][C6_WaitStep]_vars

\* the wait goroutine put the VM in ERROR for an exit that was not a kill
C6_Witness ==
  /\ ret = [op |-> "wait", err |-> "exit status 1"]
  /\ State = VM_ERROR
  /\ \E g \in DOMAIN wpc : wpc[g] = "done"

\* C7, the states: no goroutine sent more than one id, one that sent is past
\* <-waitChan of a process that exited, one that saw the natural exit or
\* that launch never started has sent none
C7_AckState ==
  \A g \in DOMAIN killAck :
    /\ killAck[g] <= 1
    /\ killAck[g] = 1 => kpc[g] = "acked" /\ wpc[g] = "done" /\ ~cmds[g].alive
    /\ kpc[g] \in {"none", "spawned", "select", "exited"} => killAck[g] = 0

\* C7, the steps: the id is sent from the operator-kill branch only, after
\* <-waitChan; the natural-exit branch ends the goroutine, sends nothing and
\* signals nothing
C7_AckStep ==
  \A g \in DOMAIN kpc :
    /\ killAck'[g] # killAck[g] => kpc[g] = "ack" /\ kpc'[g] = "acked"
    /\ (kpc'[g] = "ack" /\ kpc[g] # "ack") => kpc[g] = "waitexit" /\ wpc[g] = "done"
    /\ (kpc'[g] = "waitexit" /\ kpc[g] # "waitexit") =>
         kpc[g] = "select" /\ kch[g] \in killClosed
    /\ (kpc'[g] = "exited" /\ kpc[g] # "exited") =>
         /\ kpc[g] = "select" /\ wpc[g] = "done"
         /\ killAck'[g] = killAck[g]
         /\ cmds' = cmds
    /\ kpc[g] \in {"exited", "acked"} => kpc'[g] = kpc[g]

\* C7: for each successful launch a kill-ack is sent at most once, only after
\* the process of that launch exited, and only from the operator-kill branch;
\* a natural exit seen first gives no kill-ack and no kill signal
C7_KillAckOnce == [](C7_AckState) /\ [][C7_AckStep]_vars

\* a kill goroutine sent the id after an operator kill
C7_Witness == \E g \in DOMAIN killAck : killAck[g] = 1 /\ kpc[g] = "acked"

\* C8: one operator kill on the kill channel of the instance is enough: a
\* QEMU process that is alive when the channel was signalled is eventually
\* killed, the VM reaches QUIT or ERROR and the id is sent on killAck
C8_OneKillSuffices ==
  \A g \in 1..MaxLaunch :
    (g \in DOMAIN cmds /\ cmds[g].alive /\ kill \in killClosed)
      ~> (g \in DOMAIN cmds /\ ~cmds[g].alive /\ wpc[g] = "done"
            /\ State \in {VM_QUIT, VM_ERROR} /\ killAck[g] = 1)

\* the threads and goroutines that are inside vm.lock
Holders ==
  {<<"thread", t>> : t \in {u \in Threads : pc[u] # Idle}}
    \cup {<<"wait", g>> : g \in {h \in DOMAIN wpc : wpc[h] = "locked"}}

\* C9, the states: at most one operation or exit transition is in progress,
\* its actor holds vm.lock, and a goroutine in cmd.Wait does not hold it
C9_OneHolder ==
  /\ Cardinality(Holders) <= 1
  /\ Holders = IF lock = Free THEN {} ELSE {lock}
  /\ \A g \in DOMAIN wpc : wpc[g] = "wait" => lock # <<"wait", g>>

\* C9, the steps: the fields of the instance change only in a step of the
\* holder of vm.lock, and a holder is not replaced before it releases
C9_UnderLock ==
  /\ <<State, Networks, kill, q, vncShim, hotplug, CdromPath>>'
        # <<State, Networks, kill, q, vncShim, hotplug, CdromPath>>
       => /\ lock # Free
          /\ lock[1] = "thread" =>
               (\/ pc'[lock[2]] # pc[lock[2]]
                \/ pc[lock[2]][2] = "qmp" /\ count' # count)
          /\ lock[1] = "wait" => wpc'[lock[2]] = "done"
  /\ lock # Free => lock' \in {lock, Free}

Meets(sl, r) == sl.Start < r.EndTime /\ sl.End > r.StartTime

\* C10: the schedule and the reservation table agree: every slice that meets
\* [r.start, r.end) holds r.id in the cells of the hosts of r and in no other
\* cell, no cell holds an id that is no key of the table, and no two
\* reservations hold one host in one slice
C10_Consistent ==
  /\ \A id \in DOMAIN Reservations :
       /\ Reservations[id].ID = id
       /\ \A j \in DOMAIN Schedule :
            Meets(Schedule[j], Reservations[id]) =>
              \A n \in Nodes :
                Schedule[j].Nodes[n] = id <=> n \in Reservations[id].Hosts
  /\ \A j \in DOMAIN Schedule, n \in Nodes :
       Schedule[j].Nodes[n] # 0 => Schedule[j].Nodes[n] \in DOMAIN Reservations
  /\ \A a, b \in DOMAIN Reservations :
       (a # b /\ Reservations[a].Hosts \cap Reservations[b].Hosts # {}) =>
         \/ Reservations[a].EndTime <= Reservations[b].StartTime
         \/ Reservations[b].EndTime <= Reservations[a].StartTime

\* extend succeeded while two reservations hold one host one after the
\* other, and housekeeping has dropped slices of the past
C10_Witness ==
  /\ iret = [op |-> "extend", status |-> "ok"]
  /\ now > SliceLen
  /\ \E a, b \in DOMAIN Reservations :
       /\ a # b
       /\ Reservations[a].Hosts \cap Reservations[b].Hosts # {}
       /\ \E j \in DOMAIN Schedule, n \in Nodes : Schedule[j].Nodes[n] = b

\* what the cell of node n holds at time t: 0 where the schedule has no slice
cellAt(t, n) ==
  LET at == {j \in DOMAIN Schedule : Schedule[j].Start <= t /\ t < Schedule[j].End}
  IN  IF at = {} THEN 0 ELSE Schedule[CHOOSE j \in at : TRUE].Nodes[n]

\* the nodes free in the k slices from time s on
freeFrom(s, k) ==
  {n \in Nodes : \A j \in 0..(k - 1) : cellAt(s + j * SliceLen, n) = 0}

\* the earliest-after times sub is given
Afters == {now, Aligned(now) + SliceLen}

\* the requests for a number of nodes
CountRequests == {[count |-> n] : n \in 1..NumNodes}

\* the second of two sub of one request: the allocator on the schedule the
\* first one left
again(a, req, duration, after) ==
  allocate(mark(a.sched, a.first, a.last, a.hosts, MaxRes + 1), req, duration, after)

\* C11, the window: sub of n nodes starts at the first slice at or after
\* earliest-after from which k consecutive slices have n free nodes, and
\* takes n nodes free in them
C11_EarliestWindow ==
  ipc = "cmd" =>
    \A req \in CountRequests, duration \in 1..MaxDuration, after \in Afters :
      LET a == allocate(Schedule, req, duration, after)
          k == CeilDiv(duration * 60, SliceLen)
      IN  a.ok =>
            /\ a.start >= after /\ a.start % SliceLen = 0
            /\ Cardinality(a.hosts) = req.count
            /\ a.hosts \subseteq freeFrom(a.start, k)
            /\ \A s \in after..(a.start - 1) :
                 s % SliceLen = 0 => Cardinality(freeFrom(s, k)) < req.count

\* C11 as claimed: the second of two sub of one request starts at or after
\* the end of the first
C11_TwiceAsClaimed ==
  ipc = "cmd" =>
    \A req \in CountRequests, duration \in 1..MaxDuration, after \in Afters :
      LET a == allocate(Schedule, req, duration, after)
      IN  a.ok =>
            LET b == again(a, req, duration, after)
            IN  b.ok => b.start >= a.end

\* C11: the allocator returns the earliest feasible window; the second of two
\* sub of one request in a row shares no host with the first in any slice:
\* it takes other hosts of the same window when enough are free, and starts
\* at or after the end of the first otherwise
C11_Allocator ==
  /\ C11_EarliestWindow
  /\ ipc = "cmd" =>
       \A req \in CountRequests, duration \in 1..MaxDuration, after \in Afters :
         LET a == allocate(Schedule, req, duration, after)
         IN  a.ok =>
               LET b == again(a, req, duration, after)
               IN  b.ok =>
                     /\ b.start >= a.start
                     /\ b.hosts \cap a.hosts = {} \/ b.start >= a.end
                     /\ 2 * req.count > NumNodes => b.start >= a.end

\* sub gave every node twice in a row: the second reservation starts where
\* the first ends
C11_Witness ==
  /\ iret = [op |-> "sub", status |-> "ok"]
  /\ \E x, y \in DOMAIN Reservations :
       /\ Reservations[x].Hosts = Nodes /\ Reservations[y].Hosts = Nodes
       /\ Reservations[y].StartTime = Reservations[x].EndTime
       /\ Reservations[y].EndTime - Reservations[y].StartTime
            = Reservations[x].EndTime - Reservations[x].StartTime

\* the cells of the hosts of reservation id in the k slices after its end are
\* free or its own
extendable(id, k) ==
  \A n \in Reservations[id].Hosts, j \in 0..(k - 1) :
    cellAt(Reservations[id].EndTime + j * SliceLen, n) \in {0, id}

\* what extend(name, extra) has to do in the step it takes
C12_ExtendStep(name, extra) ==
  LET k == CeilDiv(extra * 60, SliceLen)
  IN  IF byName(name) # {} /\ extendable(CHOOSE i \in byName(name) : TRUE, k)
        THEN LET id == CHOOSE i \in byName(name) : TRUE
                 r == Reservations[id]
             IN  /\ iret'.status = "ok"
                 /\ Reservations' = [Reservations EXCEPT ![id].EndTime = r.EndTime + extra * 60]
                 /\ \A j \in DOMAIN Schedule', n \in Nodes :
                      LET sl == Schedule'[j]
                      IN  IF n \in r.Hosts /\ sl.Start >= r.EndTime
                             /\ sl.Start < r.EndTime + k * SliceLen
                            THEN sl.Nodes[n] = id
                            ELSE sl.Nodes[n] = cellAt(sl.Start, n)
                 /\ \E j \in DOMAIN Schedule' :
                      Schedule'[j].End = r.EndTime + k * SliceLen
        ELSE /\ iret'.status = "error"
             /\ UNCHANGED <<Reservations, Schedule>>

\* C12: extend by extra minutes succeeds if and only if, for every host of
\* the reservation, each of the ceil(extra / slice length) slices after its
\* end is free or its own; then those cells hold the id and the end-time is
\* advanced; otherwise neither the schedule nor any record changes
C12_Extend ==
  [][\A name \in ResNames, extra \in 1..MaxDuration :
       extend(name, extra) => C12_ExtendStep(name, extra)]_vars

\* extend failed on a reservation whose host is taken right after its end
C12_Witness ==
  /\ iret = [op |-> "extend", status |-> "error"]
  /\ \E x, y \in DOMAIN Reservations :
       /\ Reservations[y].StartTime = Reservations[x].EndTime
       /\ Reservations[x].Hosts \cap Reservations[y].Hosts # {}

\* the reservations a step removed from the table
removed == DOMAIN Reservations \ DOMAIN Reservations'

\* what a deletion leaves: no cell holds a removed id, the records of the
\* others are as they were, and every cell of the schedule that held
\* another id (or none) holds what it held
C13_DeleteStep ==
  /\ \A j \in DOMAIN Schedule', n \in Nodes :
       LET old == cellAt(Schedule'[j].Start, n)
       IN  /\ Schedule'[j].Nodes[n] \notin removed
           /\ Schedule'[j].Nodes[n] = IF old \in removed THEN 0 ELSE old
  /\ DOMAIN Reservations' = DOMAIN Reservations \ removed
  /\ \A y \in DOMAIN Reservations' : Reservations'[y] = Reservations[y]

\* C13: once a reservation is deleted, by the del command or by the expiry
\* of housekeeping, no cell of the schedule holds its id and the table has
\* no entry for it, and the cells and records of the other reservations
\* are unchanged
C13_Delete ==
  [][/\ \A name \in ResNames :
          (iret'.op = "del" /\ del(name)) =>
             /\ C13_DeleteStep
             /\ removed = byName(name)
     /\ iret'.op = "housekeeping" =>
             /\ C13_DeleteStep
             /\ removed = iret'.expired
             /\ removed \subseteq Expired
             /\ iret'.status = "ok" => removed = Expired]_vars

\* housekeeping deleted an expired reservation and another one keeps its
\* cells
C13_Witness ==
  /\ iret.op = "housekeeping"
  /\ iret.expired # {}
  /\ \E y \in DOMAIN Reservations :
       \E j \in DOMAIN Schedule, n \in Nodes : Schedule[j].Nodes[n] = y

\* the invocations that read or write the two files
inFiles == {p \in Procs : mpc[p] \in {"flockSched", "housekeeping", "cmd",
                                       "unlockSched", "unlockRes"}}

C14_Mutex ==
  /\ Cardinality(resdb) <= 1
  /\ Cardinality(scheddb) <= 1
  /\ Cardinality(inFiles) <= 1
  /\ scheddb \subseteq resdb
  /\ inFiles = resdb

\* C14: invocations of igor that run at the same time exclude one another
\* and do not deadlock: each takes the lock of the reservations file and
\* then that of the schedule file, so one at a time is past the first lock,
\* and one that waits for a lock gets past it once the holder has released
\* it, by its unlock or by its exit
C14_Flock ==
  /\ []C14_Mutex
  /\ \A p \in Procs :
       /\ (mpc[p] = "flockRes") ~> (mpc[p] # "flockRes")
       /\ (mpc[p] # "none") ~> (mpc[p] = "none")

\* one invocation is in its subcommand under both locks while two others
\* wait for the first lock
C14_Witness ==
  \E p \in Procs :
    /\ mpc[p] = "cmd"
    /\ resdb = {p} /\ scheddb = {p}
    /\ \A o \in Procs \ {p} : mpc[o] = "flockRes"

\* the reservations housekeeping is to install: started, not over, and
\* without a PXE file
due ==
  {id \in DOMAIN Reservations :
     /\ Reservations[id].StartTime < now
     /\ Reservations[id].EndTime >= now
     /\ Reservations[id].ResName \notin pxe}

\* C15: when housekeeping completes, no reservation whose end-time is
\* before now remains and every remaining reservation whose start-time is
\* before now has its PXE file; housekeeping calls Install only for a
\* reservation that has started, is not over and has no PXE file
C15_Housekeeping ==
  [][iret'.op = "housekeeping" =>
       /\ iret'.installed \subseteq due
       /\ pxe' \ pxe \subseteq {Reservations[id].ResName : id \in due}
       /\ iret'.status = "ok" =>
            /\ iret'.installed = due
            /\ \A id \in DOMAIN Reservations' :
                 /\ Reservations'[id].EndTime >= now'
                 /\ Reservations'[id].StartTime < now' =>
                      Reservations'[id].ResName \in pxe']_vars

\* housekeeping completed after it deleted one reservation and installed
\* another, and a reservation that has not started has no PXE file
C15_Witness ==
  /\ iret.op = "housekeeping"
  /\ iret.status = "ok"
  /\ iret.expired # {}
  /\ iret.installed # {}
  /\ \A id \in iret.installed :
       id \in DOMAIN Reservations /\ Reservations[id].ResName \in pxe

\* the calls of seq before its i-th
before(seq, i) == {seq[j] : j \in 1..(i - 1)}

\* C16: a failure of Install, of the power-off or of the power-on in
\* housekeeping ends the invocation before the subcommand is looked up;
\* the power-on is attempted only after the power-off succeeded; a failure
\* of networkSet alone does not end it, and Install is still attempted
C16_Fatal ==
  [][/\ iret'.op = "housekeeping" =>
          /\ iret'.status \in {"ok", "Install", "PowerOff", "PowerOn"}
          /\ iret'.status # "ok" =>
               /\ ipc' = "idle"
               /\ iret'.calls[Len(iret'.calls)] = iret'.status
          /\ iret'.status = "ok" => ipc' = "cmd"
          /\ \A i \in DOMAIN iret'.calls :
               /\ iret'.calls[i] = "PowerOn" =>
                    /\ "PowerOff" \in before(iret'.calls, i)
                    /\ iret'.status # "PowerOff"
               /\ iret'.calls[i] = "PowerOff" =>
                    /\ "Install" \in before(iret'.calls, i)
                    /\ iret'.status # "Install"
          /\ iret'.netFailed \subseteq iret'.installed
          /\ "Install" \in before(iret'.calls, Len(iret'.calls) + 1)
     /\ iret'.op \in {"sub", "extend", "del", "show"} =>
          /\ iret.op = "housekeeping"
          /\ iret.status = "ok"]_vars

\* networkSet failed for a reservation, Install was attempted all the same
\* and wrote its file, the power-off succeeded, and the failure of the
\* power-on ended the invocation
C16_Witness ==
  /\ iret.op = "housekeeping"
  /\ iret.status = "PowerOn"
  /\ ipc = "idle"
  /\ iret.netFailed = iret.installed
  /\ \A id \in iret.installed : Reservations[id].ResName \in pxe
  /\ \E id \in iret.installed : power[Reservations[id].ResName] = "off"

\* the ids a step added to the hotplug table
plugged == DOMAIN hotplug' \ DOMAIN hotplug

\* C17 as stated: each successful Hotplug receives an id strictly greater
\* than every id an earlier Hotplug on that VM received
C17_Monotonic ==
  [][(ret'.op = "Hotplug" /\ ret'.err = "nil") =>
       \A id \in plugged : id > issued]_vars

\* C17: each successful Hotplug adds one entry to the table, under an id
\* strictly greater than every id the table holds then (0 when it is
\* empty), and nothing else adds an entry; the id of a removed drive is
\* given again once the table holds no higher id
C17_AboveTable ==
  [][/\ (ret'.op = "Hotplug" /\ ret'.err = "nil") =>
          /\ Cardinality(plugged) = 1
          /\ \A id \in plugged :
               /\ \A k \in DOMAIN hotplug : id > k
               /\ id = 0 \/ id - 1 \in DOMAIN hotplug
               /\ issued' >= id
          /\ \A k \in DOMAIN hotplug : hotplug'[k] = hotplug[k]
     /\ plugged # {} => (ret'.op = "Hotplug" /\ ret'.err = "nil")]_vars

\* Hotplug gave the id 0 after an earlier Hotplug had given the id 1
C17_Witness ==
  /\ ret = [op |-> "Hotplug", err |-> "nil"]
  /\ DOMAIN hotplug = {0}
  /\ issued = 1

\* the ids a step took out of the hotplug table
unplugged == DOMAIN hotplug \ DOMAIN hotplug'

\* C18: a successful Hotplug followed by a successful HotplugRemove of the
\* id it allocated leaves the hotplug table equal to the table before the
\* Hotplug: the removal can succeed on the table Hotplug leaves, it gives
\* back the table Hotplug found, and a HotplugRemove that succeeds takes out
\* the entry of its id and no other
C18_HotplugRemoveUndoes ==
  [][/\ (ret'.op = "Hotplug" /\ ret'.err = "nil") =>
          \A id \in plugged :
            /\ hotplugRemoveOuts(hotplug', id) # {"no such hotplug device"}
            /\ hotplugRemoveTable(hotplug', id, "nil") = hotplug
     /\ \A t \in Threads, id \in 0..MaxId :
          (HotplugRemove(t, id) /\ ret'.err = "nil") =>
             /\ id \in DOMAIN hotplug
             /\ hotplug' = hotplugRemoveTable(hotplug, id, "nil")
             /\ hotplug = [k \in DOMAIN hotplug' \cup {id} |->
                             IF k = id THEN hotplug[id] ELSE hotplug'[k]]]_vars

\* HotplugRemove took out the drive of id 1, the last one plugged, and the
\* table holds the drive of id 0 as it did before
C18_Witness ==
  /\ ret = [op |-> "HotplugRemove", err |-> "nil"]
  /\ DOMAIN hotplug = {0}
  /\ issued = 1
  /\ NextHotplugId = 1

\* the QMP commands a step sent
sent == SubSeq(qmpLog', Len(qmpLog) + 1, Len(qmpLog'))

\* in the commands log, device_del of hotplug<id> and then drive_del of
\* hotplug<id>, next to one another
paired(log, id) ==
  \E i \in 1..(Len(log) - 1) :
    /\ log[i] = <<"device_del", hid(id)>>
    /\ log[i + 1] = <<"drive_del", hid(id)>>

\* C19: HotplugRemoveAll on a table that is not empty sends, for every id
\* of the table, device_del and then drive_del of hotplug<id>, and leaves
\* the table empty when all of them succeed (the first error ends it: the
\* ids handled before are out of the table, the others stay); on an empty
\* table it fails with "no hotplug devices to remove" and sends nothing;
\* HotplugRemove of an id the table does not hold fails and sends nothing
C19_RemoveAll ==
  [][/\ ret'.op = "HotplugRemoveAll" =>
          /\ Len(qmpLog') >= Len(qmpLog)
          /\ IF hotplug = << >>
               THEN /\ ret'.err = "no hotplug devices to remove"
                    /\ sent = <<>>
                    /\ hotplug' = hotplug
               ELSE /\ ret'.err # "no hotplug devices to remove"
                    /\ ret'.err = "nil" =>
                         /\ hotplug' = << >>
                         /\ Len(sent) = 2 * Cardinality(DOMAIN hotplug)
                         /\ \A id \in DOMAIN hotplug : paired(sent, id)
                    /\ ret'.err # "nil" =>
                         /\ hotplug' # << >>
                         /\ \A id \in unplugged : paired(sent, id)
                         /\ \A id \in DOMAIN hotplug' : hotplug'[id] = hotplug[id]
                         /\ Len(sent) \in {2 * Cardinality(unplugged) + 1,
                                           2 * Cardinality(unplugged) + 2}
                         /\ sent[2 * Cardinality(unplugged) + 1][1] = "device_del"
     /\ \A t \in Threads, id \in 0..(MaxId + 1) :
          (HotplugRemove(t, id) /\ id \notin DOMAIN hotplug) =>
             /\ ret'.err = "no such hotplug device"
             /\ qmpLog' = qmpLog
             /\ hotplug' = hotplug]_vars

\* HotplugRemoveAll emptied a table of two drives with four commands
C19_Witness ==
  /\ ret = [op |-> "HotplugRemoveAll", err |-> "nil"]
  /\ hotplug = << >>
  /\ Len(qmpLog) = 4
  /\ paired(qmpLog, 0) /\ paired(qmpLog, 1)

\* the places in args of the NICs and the virtio-serial-pci devices
pciDevs ==
  {k \in DOMAIN qargs.args : qargs.args[k].dev \in {"nic", "virtio-serial-pci"}}

\* the places in args of the bridges
bridges == {k \in DOMAIN qargs.args : qargs.args[k].dev = "pci-bridge"}

nic(n) == CHOOSE k \in pciDevs : qargs.args[k].dev = "nic" /\ qargs.args[k].id = n - 1

\* the bridges that come before every virtio-serial-pci device
bridgesBeforeVirtio ==
  {b \in bridges :
     \A k \in pciDevs : qargs.args[k].dev = "virtio-serial-pci" => b < k}

\* C21 as stated: with 33 NICs there are two bridges before the
\* virtio-serial devices and the 33rd NIC is on pci.2 at addr 0x1
C21_AsClaimed ==
  (qargs.pc = "done" /\ vmConfig.Networks = 33) =>
    /\ {qargs.args[b].bus : b \in bridgesBeforeVirtio} = {1, 2}
    /\ Cardinality(bridgesBeforeVirtio) = 2
    /\ qargs.args[nic(33)].bus = 2
    /\ qargs.args[nic(33)].addr = 1

\* C21: with 33 NICs the builder emits exactly two bridges, pci.1 and
\* pci.2, both before the virtio-serial devices; the NICs 1 to 31 are on
\* pci.1 at the addresses 1 to 31, the 32nd NIC is on pci.2 at addr 0x1 and
\* the 33rd on pci.2 at addr 0x2
C21_ThirtyThree ==
  (qargs.pc = "done" /\ vmConfig.Networks = 33) =>
    /\ {qargs.args[b].bus : b \in bridgesBeforeVirtio} = {1, 2}
    /\ Cardinality(bridgesBeforeVirtio) = 2
    /\ bridges = bridgesBeforeVirtio
    /\ \A n \in 1..31 :
         qargs.args[nic(n)].bus = 1 /\ qargs.args[nic(n)].addr = n
    /\ qargs.args[nic(32)].bus = 2 /\ qargs.args[nic(32)].addr = 1
    /\ qargs.args[nic(33)].bus = 2 /\ qargs.args[nic(33)].addr = 2

\* the argument list of a configuration of 33 NICs is complete, its 33rd
\* NIC on pci.2 at addr 0x2
C21_Witness ==
  /\ qargs.pc = "done"
  /\ vmConfig.Networks = 33
  /\ \E k \in pciDevs :
       qargs.args[k] = [dev |-> "nic", id |-> 32, bus |-> 2, addr |-> 2]

\* the places in args of the tokens that are the flag f
flags(f) == {k \in DOMAIN qargs.args : qargs.args[k].dev = f}

\* the places in args of the ports named cc
ccPorts ==
  {k \in flags("virtserialport") : qargs.args[k].name = "cc"}

\* C22 as stated: for any config the argument vector has exactly one -uuid
\* token, exactly one virtserialport named cc and exactly one -pidfile
C22_AsClaimed ==
  qargs.pc = "done" =>
    /\ Cardinality(flags("-uuid")) = 1
    /\ Cardinality(ccPorts) = 1
    /\ Cardinality(flags("-pidfile")) = 1

\* C22: the argument vector ends with -uuid and the uuid; in front of them
\* are the tokens of the config's QemuAppend, as they are; the options the
\* builder writes itself, all in front of those, hold no -uuid, exactly one
\* -pidfile, whose value is <instance-dir>/qemu.pid, and exactly one
\* virtserialport named cc, with nr=1 on virtio-serial0. A second -uuid or
\* -pidfile token is in the vector when QemuAppend holds one
C22_Tokens ==
  qargs.pc = "done" =>
    LET a == qargs.args
        n == Len(a)
        m == Len(vmConfig.QemuAppend)
        own == 1..(n - m - 1)
    IN  /\ a[n] = [dev |-> "-uuid", value |-> "UUID"]
        /\ \A k \in 1..m : a[n - 1 - m + k] = [dev |-> vmConfig.QemuAppend[k]]
        /\ flags("-uuid") \cap own = {}
        /\ Cardinality(flags("-pidfile") \cap own) = 1
        /\ \A k \in flags("-pidfile") \cap own : a[k].value = Join("qemu.pid")
        /\ Cardinality(ccPorts) = 1
        /\ ccPorts \subseteq own
        /\ \A k \in ccPorts : a[k].nr = 1 /\ a[k].id = 0
        /\ \A k \in flags("virtserialport") \ ccPorts : a[k].id >= 1

\* the argument vector of a configuration with virtio ports whose
\* QemuAppend is -uuid 1234: it holds two -uuid tokens and ends with the
\* builder's
C22_Witness ==
  /\ qargs.pc = "done"
  /\ vmConfig.QemuAppend = <<"-uuid", "1234">>
  /\ vmConfig.VirtioPorts = 31
  /\ Cardinality(flags("-uuid")) = 2
  /\ qargs.args[Len(qargs.args)].dev = "-uuid"

\* thread t is in connectQMP
dialing(t) == pc[t][2] = "qmp"

\* what one step of thread t in connectQMP does
C23_DialStep(t) ==
  /\ count < QMP_CONNECT_RETRY =>
       \* a dial: connected, and out of the loop at once, or one more failure
       \/ /\ pc'[t][2] = "vnc"
          /\ q' = cur /\ count' = 0
          /\ UNCHANGED <<State, cmds>>
       \/ /\ dialing(t)'
          /\ count' = count + 1
          /\ UNCHANGED <<State, cmds>>
  /\ count >= QMP_CONNECT_RETRY =>
       \* no dial: the process is killed, ERROR, the error is returned;
       \* no QMP connection and its logger, no shim, no kill goroutine
       /\ pc'[t] = Idle
       /\ ret' = [op |-> pc[t][1], err |-> "connectQMP"]
       /\ State' = VM_ERROR
       /\ cmds' = ProcessKill(cur)
       /\ cmds[cur].alive => cmds'[cur].killed
       /\ q' = 0
       /\ kpc'[cur] = "none"
       /\ vncShim' # cur /\ cur \notin shimOpen'
       /\ UNCHANGED <<vncShim, shimOpen, kpc>>

\* C23: connectQMP dials at most QMP_CONNECT_RETRY times and stops at the
\* first dial that succeeds, so launch always gets out of it; when every
\* dial failed, launch kills the QEMU process it spawned, sets the VM to
\* ERROR and returns the error, and starts neither the QMP logger, nor the
\* VNC shim, nor the kill goroutine
C23_ConnectQMP ==
  /\ [](count \in 0..QMP_CONNECT_RETRY)
  /\ [][\A t \in Threads :
          (dialing(t) /\ (pc'[t] # pc[t] \/ count' # count)) => C23_DialStep(t)]_vars
  /\ \A t \in Threads : dialing(t) ~> ~dialing(t)

\* every dial failed while QEMU was running: launch returned the error of
\* connectQMP, the VM is in ERROR and the process is killed
C23_Witness ==
  /\ ret.err = "connectQMP"
  /\ State = VM_ERROR
  /\ count = 0
  /\ cmds[cur].alive /\ cmds[cur].killed
  /\ kpc[cur] = "none"

\* session s took one turn of its loop over vnc.ReadClientMessage
turned(s) ==
  /\ s \in DOMAIN sessions
  /\ sessions[s].pc = "read"
  /\ sessions'[s].copy = sessions[s].copy
  /\ sessions'[s].local = sessions[s].local \/ sessions'[s].pc = "done"
  /\ sessions'[s].err # sessions[s].err \/ sessions'[s].pc = "done"

\* the connection of session s is over for the client
over(s) ==
  /\ s \in DOMAIN sessions
  /\ sessions[s].remote \in {"ended", "partial", "failed"}

\* C24: the VNC shim leaks no goroutine: once the listener is closed the
\* accept loop returns; a session whose remote connection has ended or
\* failed leaves its loop and its copy ends; a turn of the loop ends the
\* session exactly when the decoder gave EOF or a broken pipe, and after an
\* unknown client message or any other error the session goes on
C24_NoLeak ==
  /\ (listener = "closed") ~> (acceptor # "accept")
  /\ \A s \in 1..MaxSessions :
       over(s) ~> (/\ s \in DOMAIN sessions
                   /\ sessions[s].pc = "done"
                   /\ sessions[s].copy # "run")
  /\ [][\A s \in 1..MaxSessions :
          turned(s) =>
            (sessions'[s].pc = "done"
               <=> sessions'[s].err \in {"EOF", "broken pipe"})]_vars

\* the listener is closed and the accept loop gone, one session ended on EOF,
\* another on a broken pipe, and no copy is left
C24_Witness ==
  /\ listener = "closed"
  /\ acceptor = "done"
  /\ Len(sessions) = 2
  /\ sessions[1] = [pc |-> "done", remote |-> "closed", local |-> "closed",
                    copy |-> "done", err |-> "EOF"]
  /\ sessions[2] = [pc |-> "done", remote |-> "closed", local |-> "closed",
                    copy |-> "done", err |-> "broken pipe"]

\* main is over by its return, not by os.Exit
returned ==
  /\ mainpc = "exited"
  /\ steps # <<>>
  /\ steps[Len(steps)] = "return"

\* C25: the exit status of an invocation is the greatest severity given to
\* setExitStatus, which is what the variable exitStatus holds: a run of a
\* name that is no subcommand exits with 2, a run without error with 0
C25_ExitStatus ==
  returned => exitCode = exitStatus

\* the order of main
Order == <<"lock reservations", "load reservations", "lock schedule",
           "load schedule", "housekeeping", "subcommand">>

\* the steps of Order that main has done
done == SelectSeq(steps, LAMBDA x : \E i \in DOMAIN Order : Order[i] = x)

\* both locks are held and both files are parsed
ready ==
  /\ Len(done) >= 4
  /\ held = {"reservations", "schedule"}
  /\ \A f \in {"reservations", "schedule"} :
       /\ files[f] # "garbage"
       /\ loaded[f] = decoded(files[f])

\* C30: main locks reservations.json, loads it, locks schedule.gob, loads
\* it, runs housekeeping and then the subcommand, in this order; housekeeping
\* and the subcommand start only with both locks held and both files parsed,
\* so never on a file that is not empty and does not parse, and an empty
\* file is loaded as an empty collection; help and version return without a
\* lock, without loading and without any of these steps
C30_Order ==
  /\ [](/\ done = SubSeq(Order, 1, Len(done))
        /\ args0 \in {"help", "version"} =>
             /\ held = {}
             /\ done = <<>>
             /\ loaded = [reservations |-> "none", schedule |-> "none"]
             /\ mainpc = "exited" => steps = <<args0, "return">>
        /\ \A f \in {"reservations", "schedule"} :
             (files[f] = "empty" /\ Len(done) >= 4) => loaded[f] = "none")
  /\ [][(Len(done') > Len(done) /\ Len(done') >= 5) =>
          ready]_vars

\* a run of show on an empty reservations file went through all six steps
\* and returned
C30_Witness ==
  /\ args0 = "show"
  /\ files = [reservations |-> "empty", schedule |-> "valid"]
  /\ steps = Order \o <<"return">>
  /\ loaded = [reservations |-> "none", schedule |-> "some"]
  /\ exitCode = 0

\* the float f is within [0,1]
unit(f) == 0 <= f[1] /\ f[1] <= f[2]

\* the reply r cannot be decoded: no status that is a string, or no ram map
\* with total and transferred for an active migration
undecodable(r) ==
  \/ r.status \in {"absent", "not a string"}
  \/ /\ r.status = "active"
     /\ r.ram.kind # "map" \/ r.ram.total = -1 \/ r.ram.transferred = -1

\* C26: for every reply of QMP, QueryMigrate returns an error or a fraction
\* within [0,1]: 1.0 for a completed migration, 0 for a failed one,
\* transferred/total for an active one; a total of 0 and a status or ram
\* field that cannot be decoded give an error, not a value and not a panic
C26_Fraction ==
  (migrate.returned /\ ~reply.err) =>
     /\ migrate.err # "panic"
     /\ migrate.err = "" => unit(migrate.completed)
     /\ (reply.status = "completed") =>
          (migrate.err = "" /\ migrate.completed = <<1, 1>>)
     /\ (reply.status = "failed") =>
          (migrate.err = "" /\ migrate.completed = <<0, 1>>)
     /\ (reply.status = "active" /\ ~undecodable(reply) /\ reply.ram.total > 0) =>
          (/\ migrate.err = ""
           /\ migrate.completed = <<reply.ram.transferred, reply.ram.total>>)
     /\ (undecodable(reply) \/ (reply.status = "active" /\ reply.ram.total = 0)) =>
          migrate.err # ""

\* the QMP command that ejects the cdrom
ejectCmd == <<"eject", "ide0-cd1">>

\* the step of EjectCD: nothing is sent without a cdrom, and the path is
\* cleared exactly when the eject succeeded
C28_Eject ==
  Returns("EjectCD") =>
    /\ State' = State
    /\ IF CdromPath = ""
         THEN /\ ret'.err = "no cdrom inserted"
              /\ qmpLog' = <<>>
              /\ CdromPath' = ""
         ELSE /\ qmpLog' = <<ejectCmd>>
              /\ \/ ret'.err = "nil" /\ CdromPath' = ""
                 \/ ret'.err = "q.BlockdevEject" /\ CdromPath' = CdromPath

\* the step of ChangeCD: the eject of a cdrom that is present comes first,
\* change-medium is sent only after that eject succeeded, and its path is
\* recorded exactly when change-medium succeeded
C28_Change ==
  Returns("ChangeCD") =>
    /\ State' = State
    /\ qmpLog' # <<>>
    /\ CdromPath # "" => qmpLog'[1] = ejectCmd
    /\ LET last == qmpLog'[Len(qmpLog')]
       IN  \/ /\ ret'.err = "q.BlockdevEject"
              /\ CdromPath # ""
              /\ qmpLog' = <<ejectCmd>>
              /\ CdromPath' = CdromPath
           \/ /\ ret'.err = "q.BlockdevChange"
              /\ Len(qmpLog') = (IF CdromPath # "" THEN 2 ELSE 1)
              /\ last[1] = "change"
              /\ CdromPath' = ""
           \/ /\ ret'.err = "nil"
              /\ Len(qmpLog') = (IF CdromPath # "" THEN 2 ELSE 1)
              /\ last[1] = "change"
              /\ CdromPath' = last[3]

\* C28: the recorded cdrom path changes only in a step of EjectCD or ChangeCD
\* in which a QMP command succeeded, and these never change the state of the
\* VM: EjectCD without a cdrom fails, sends nothing and changes nothing; a
\* failing eject leaves the path as it was; ChangeCD ejects a cdrom that is
\* present first, sends change-medium only if that eject succeeded, and
\* records the new path if and only if change-medium succeeded
C28_Cdrom ==
  [][/\ C28_Eject
     /\ C28_Change
     /\ CdromPath' # CdromPath =>
          /\ Returns("EjectCD") \/ Returns("ChangeCD")
          /\ ret'.err # "q.BlockdevEject"
          /\ ret'.err = "q.BlockdevChange" => CdromPath # ""]_vars

\* ChangeCD ejected the cdrom that was present, and change-medium failed
C28_Witness ==
  /\ ret = [op |-> "ChangeCD", err |-> "q.BlockdevChange"]
  /\ Len(qmpLog) = 2
  /\ qmpLog[1] = ejectCmd
  /\ CdromPath = ""

\* C27: Screenshot on a VM that is not RUNNING fails and sends no QMP
\* command; when it returns after screendump wrote the temporary file, with
\* the PNG or with the error of reading or converting it, that file is gone
C27_TempGone ==
  shot.pc = "returned" =>
    /\ BitAnd(shot.state, VM_RUNNING) = 0 =>
         (shot.err = "vmNotRunning" /\ ~shot.sent)
    /\ (shot.wrote /\ shot.err \in {"nil", "ioutil.ReadFile", "ppmToPng"}) =>
         shot.tmp \notin tmpFiles

\* the elements of the slice fields of config c, as a reader of c sees them
view(c) == [f \in Fields |-> heap[c[f]]]

\* C29: Copy duplicates every slice field: a store to an element of the
\* disks, the append tokens, the qemu-append tokens or the qemu-overrides of
\* the copy leaves the config that was copied as it was, and a store to the
\* config that was copied leaves the copy as it was
C29_DeepCopy ==
  [][(copied /\ heap' # heap) =>
       /\ stored' = "res" => view(oldCfg)' = view(oldCfg)
       /\ stored' = "old" => view(resCfg)' = view(resCfg)]_vars

\* C31: Hotplug takes the id 0 on an empty table and otherwise 1 + the
\* greatest key, which is no key of the table; it sends drive_add and then
\* device_add for hotplug<id>, writes the entry (disk, version) only after
\* both succeeded and leaves the table as it was when one fails; a version
\* other than "", 1.1 and 2.0 is refused before the lock is taken and
\* before any QMP command; the state of the VM is never changed
C31_Hotplug ==
  [][ret'.op = "Hotplug" =>
       /\ State' = State
       /\ IF ret'.err = "invalid version"
            THEN /\ lock' = lock
                 /\ pc' = pc
                 /\ hotplug' = hotplug
                 /\ qmpLog' \in {qmpLog, <<>>}
            ELSE LET id == NextHotplugId
                 IN  /\ id \notin DOMAIN hotplug
                     /\ id = 0 <=> DOMAIN hotplug = {}
                     /\ id > 0 => id - 1 = Max(DOMAIN hotplug)
                     /\ Len(sent) >= 1
                     /\ sent[1][1] = "drive_add" /\ sent[1][2] = hid(id)
                     /\ ret'.err = "q.DriveAdd" =>
                          (Len(sent) = 1 /\ hotplug' = hotplug)
                     /\ ret'.err # "q.DriveAdd" =>
                          /\ Len(sent) = 2
                          /\ sent[2][1] = "device_add" /\ sent[2][2] = hid(id)
                     /\ ret'.err = "q.USBDeviceAdd" => hotplug' = hotplug
                     /\ ret'.err = "nil" =>
                          /\ plugged = {id}
                          /\ hotplug'[id].Disk = sent[1][3]
                          /\ hotplug'[id].Version =
                               (IF sent[2][3] = "ehci.0" THEN "2.0" ELSE "1.1")
                          /\ \A k \in DOMAIN hotplug : hotplug'[k] = hotplug[k]
                     /\ ret'.err \in {"q.DriveAdd", "q.USBDeviceAdd", "nil"}]_vars

\* the second drive was plugged under id 1 with its two commands in order
C31_Witness ==
  /\ ret = [op |-> "Hotplug", err |-> "nil"]
  /\ DOMAIN hotplug = {0, 1}
  /\ Len(qmpLog) = 2
  /\ qmpLog[1][1] = "drive_add" /\ qmpLog[1][2] = hid(1)
  /\ qmpLog[2][1] = "device_add" /\ qmpLog[2][2] = hid(1)

\* the shim listener launch opened for process g is open
listening(g) == g \in shimOpen

\* process g has exited
exited(g) == g \in DOMAIN cmds /\ ~cmds[g].alive

\* C32: whenever a launched QEMU process exits, the listener of the VNC shim
\* opened for that launch is closed in the end (and with it the accept loop
\* ends), also when the process exits before launch has set up the shim: a
\* VM whose processes have all exited and whose wait goroutines are done
\* keeps no open listener
C32_ShimClosed ==
  /\ \A g \in 1..MaxLaunch : exited(g) ~> (exited(g) /\ ~listening(g))
  /\ []((/\ \A g \in DOMAIN cmds : exited(g) /\ wpc[g] = "done"
          /\ \A t \in Threads : pc[t] = Idle)
          => shimOpen = {})

\* the step is the exit transition of the wait goroutine of process g
waited(g) == g \in DOMAIN wpc /\ wpc[g] = "locked" /\ wpc'[g] = "done"

\* C34: the state of a VM is that of its current launch: whenever the state
\* is QUIT (as one who takes vm.lock reads it) no QEMU process of the
\* instance is alive, and the wait goroutine of an earlier launch changes
\* neither the state nor the shim listener of a later one
C34_CurrentLaunch ==
  /\ []((State = VM_QUIT /\ lock = Free) => Alive = {})
  /\ [][\A g \in 1..MaxLaunch :
          (waited(g) /\ g < cur) =>
             (State' = State /\ shimOpen' \cap {cur} = shimOpen \cap {cur})]_vars


\* the call of run by c returns in this step
runReturns(c) == calls[c].pc = "unlock" /\ calls'[c].pc = "idle"

\* C33: the calls of run exclude one another and each dials at most once.
\* With no connection run dials once; with a connection whose error is
\* broken pipe, no such file or directory or requester disconnected it
\* redials once and runs the command on the new connection; when the dial
\* or the redial fails, or the error is another one, it returns a closed
\* channel and runs no command.
C33_Run ==
  /\ [](\A c, d \in Callers :
          (calls[c].pc \in {"dial", "check", "redial", "run", "unlock"}
           /\ calls[d].pc \in {"dial", "check", "redial", "run", "unlock"})
          => c = d)
  /\ [](\A c \in Callers : calls[c].dials <= 1)
  /\ [][\A c \in Callers : runReturns(c) =>
          LET r == calls[c]
          IN  /\ r.had = 0 => r.dials = 1
              /\ (r.had # 0 /\ r.s \in {EPIPE, ENOENT, EDISCONNECTED}) =>
                   /\ r.dials = 1
                   /\ ~r.failed => (r.out = "run" /\ r.on # r.had /\ r.on = mm)
              /\ (r.had # 0 /\ r.s = <<>>) =>
                   (r.dials = 0 /\ r.out = "run" /\ r.on = r.had)
              /\ (r.failed \/ r.s \in {ERESET, EEOF}) =>
                   (r.out = "closed" /\ r.on = 0)
              /\ r.out \in {"run", "closed"}]_vars

\* a call that found requester disconnected has redialed and run its command
C33_Witness ==
  \E c \in Callers :
    /\ calls[c].pc = "idle"
    /\ calls[c].s = EDISCONNECTED
    /\ calls[c].dials = 1
    /\ calls[c].out = "run"
    /\ calls[c].on # calls[c].had
    /\ calls[3 - c].pc = "lock"


\* C35: after any hotplug calls the keys of the table are the ids of which
\* QEMU holds both the drive and the USB device; QEMU holds no drive and no
\* device hotplug<n> without an entry n; and Hotplug never takes the name of
\* a drive that QEMU holds.
C35_TableIsQemu ==
  /\ DOMAIN hotplug = drives \cap devices
  /\ drives \cup devices \subseteq DOMAIN hotplug
  /\ plug.op = "Hotplug" => ~plug.held


\* C36: under AutoReboot, whatever invocations came before and however they
\* ended, the hosts of every reservation whose PXE file is present were
\* powered off and then on after the install.
C36_PowerCycled == AutoReboot => \A n \in pxe : power[n] = "on"

====
